---------------------------- MODULE Spec2Model ----------------------------
(***************************************************************************)
(* A model of the chain-RPC probers of big-blackbox-exporter:              *)
(*   - stringsToSlice and resultToFloat64WithDecimals (prober/jsonrpc.go), *)
(*     as operators over strings, and                                      *)
(*   - ProbeJSONRPC (prober/jsonrpc.go, lines 243-389), as a state machine *)
(*     over one invocation: dial, column checks, gauge registration, and   *)
(*     the two execution modes (one call per descriptor, or one batch).    *)
(* Strings are TLA+ strings; a character is a string of length one.        *)
(***************************************************************************)
EXTENDS Integers, Sequences, FiniteSets, TLC

VARIABLES
    \* ---- stringsToSlice, one invocation
    s,          \* the argument of stringsToSlice
    parts,      \* strings.Split(s, ",")
    result,     \* the []interface{} being filled (Nil where not yet assigned)
    spc,        \* position: "idle" | "call" | "loop" | "done"
    \* ---- ProbeJSONRPC, the arguments of one invocation
    target,     \* the target as the caller passed it
    params,     \* url.Values: key -> sequence of values
    endpoint,   \* what the RPC endpoint answers: see Endpoints
    registry,   \* the *prometheus.Registry: see FreshRegistry
    \* ---- ProbeJSONRPC, its locals
    pc,         \* position in the function, "done" once it has returned
    success,    \* the named result
    rpc,        \* the local target, after the scheme was prepended
    idx,        \* index (from 1) of the descriptor the loop is at
    batch,      \* the []rpc.BatchElem built so far (Method and Args)
    raw,        \* the json.RawMessage each call or batch element wrote
    \* ---- what the invocation did, kept to state the claims
    wire,       \* the requests sent to the endpoint, in order
    sets,       \* the gauge Set calls made, in order
    run,        \* 1 in the first invocation, 2 in the repeated one
    first,      \* outcome of the first invocation, once it is repeated
    \* ---- resultToFloat64WithDecimals, one invocation
    fresult,    \* the argument result
    fdecimals,  \* the argument decimals
    resultInt,  \* the *big.Int: its sign and its absolute value
    f,          \* the float64 returned
    fpc,        \* position: "idle" | "call" | "parsed" | "done" | "panic"
    \* ---- the surroundings of one invocation of ProbeJSONRPC
    ctx,        \* the context passed to it: "live" | "cancelled"
    silent,     \* TRUE when the endpoint accepts requests and never answers
    \* ---- two invocations of ProbeJSONRPC, each with a registry of its own
    begin,      \* the arguments and fresh locals of the two
    turn,       \* which of the two the variables of ProbeJSONRPC above hold
    saved,      \* the arguments and locals of the one they do not hold
    solo,       \* what each of the two returned and registered when run alone
    mixed,      \* TRUE once the two have taken turns while both were under way
    \* ---- ProbeBTCRPC, one invocation
    btarget,    \* the argument target
    bparams,    \* the values of module, user and pass in the argument params
    bregistry,  \* the argument registry: see FreshRegistry
    output,     \* what the curl command does: see CurlFails, CurlPrints
    url,        \* the local url
    bsuccess,   \* the named result
    bpc,        \* position: "idle" | "entry" | "register" | "curl" | "parse" | "done" | "panic"
    \* ---- package-level names ProbeBTCRPC uses and btcrpc.go does not declare
    blockNumber,        \* a number, which ProbeBTCRPC reads
    blockHeightGauge,   \* the series of a GaugeVec with the labels network, url
    \* ---- ProbeETHRPC in the mode contract_call, one invocation
    etarget,    \* the argument target
    calls,      \* the values of call in the argument params
    replies,    \* what the endpoint answers to the invocation of each call
    eregistry,  \* the argument registry: see FreshRegistry
    epc,        \* position: "idle" | "entry" | "parse" | "invoke" | "decode" | "done"
    esuccess,   \* the result
    eidx,       \* index (from 1) of the call string the loop is at
    emethod,    \* the call being made: label, address, ABIMethod, arguments
    ebytes,     \* the bytes the contract returned, in words of 32
    ewire,      \* the invocations sent to the endpoint, in order
    esets       \* the gauge Set calls made, in order

sliceVars == <<s, parts, result, spc>>

probeVars == <<target, params, endpoint, registry, pc, success, rpc, idx, batch, raw,
               wire, sets, run, first>>

floatVars == <<fresult, fdecimals, resultInt, f, fpc>>

outerVars == <<ctx, silent>>

pairVars == <<begin, turn, saved, solo, mixed>>

btcVars == <<btarget, bparams, bregistry, output, url, bsuccess, bpc, blockNumber,
             blockHeightGauge>>

ethVars == <<etarget, calls, replies, eregistry, epc, esuccess, eidx, emethod, ebytes,
             ewire, esets>>

\* the variables of the probers other than ProbeJSONRPC
proberVars == <<btcVars, ethVars>>

vars == <<sliceVars, probeVars, floatVars, outerVars, pairVars, proberVars>>

\* what an action of one function leaves alone: the variables of the others,
\* and the surroundings, which no statement of the three functions assigns
notSlice == <<probeVars, floatVars, outerVars, pairVars, proberVars>>
notProbe == <<sliceVars, floatVars, outerVars, pairVars, proberVars>>
notFloat == <<sliceVars, probeVars, outerVars, pairVars, proberVars>>
notBtc == <<sliceVars, probeVars, floatVars, outerVars, pairVars, ethVars>>
notEth == <<sliceVars, probeVars, floatVars, outerVars, pairVars, btcVars>>

(***************************************************************************)
(* Bounds of the model.                                                    *)
(***************************************************************************)
\* longest string over Alphabet that stringsToSlice is applied to
MaxLen == 3
\* most values a column of the parameter map holds (call descriptors of a probe)
MaxN == 2

(***************************************************************************)
(* strings and strconv                                                     *)
(***************************************************************************)
Char(str, i) == SubSeq(str, i, i)

Chars(str) == { Char(str, i) : i \in 1..Len(str) }

HasPrefix(str, prefix) ==
    /\ Len(str) >= Len(prefix)
    /\ SubSeq(str, 1, Len(prefix)) = prefix

\* strings.TrimPrefix
TrimPrefix(str, prefix) ==
    IF HasPrefix(str, prefix) THEN SubSeq(str, Len(prefix) + 1, Len(str)) ELSE str

\* unicode.IsSpace, on the characters the model uses
IsSpace(c) == c \in {" ", "\t", "\n", "\r"}

RECURSIVE TrimLeft(_)
TrimLeft(str) ==
    IF str # "" /\ IsSpace(Char(str, 1)) THEN TrimLeft(Tail(str)) ELSE str

RECURSIVE TrimRight(_)
TrimRight(str) ==
    IF str # "" /\ IsSpace(Char(str, Len(str)))
    THEN TrimRight(SubSeq(str, 1, Len(str) - 1))
    ELSE str

\* strings.TrimSpace
TrimSpace(str) == TrimRight(TrimLeft(str))

\* index of the first occurrence of the character c in str, 0 when there is none
RECURSIVE IndexFrom(_, _, _)
IndexFrom(str, c, i) ==
    IF i > Len(str) THEN 0
    ELSE IF Char(str, i) = c THEN i
    ELSE IndexFrom(str, c, i + 1)

Index(str, c) == IndexFrom(str, c, 1)

\* strings.Split(str, sep) for a one-character separator: always at least one part
RECURSIVE Split(_, _)
Split(str, sep) ==
    LET k == Index(str, sep) IN
    IF k = 0 THEN <<str>>
    ELSE <<SubSeq(str, 1, k - 1)>> \o Split(SubSeq(str, k + 1, Len(str)), sep)

DecDigits == "0123456789"

IsDecDigit(c) == Len(c) = 1 /\ Index(DecDigits, c) # 0

DecDigitVal(c) == Index(DecDigits, c) - 1

RECURSIVE StripZeros(_)
StripZeros(digits) ==
    IF Len(digits) > 1 /\ Char(digits, 1) = "0" THEN StripZeros(Tail(digits)) ELSE digits

\* a <= b for two numerals without leading zeros
RECURSIVE NumeralLeq(_, _)
NumeralLeq(a, b) ==
    IF Len(a) # Len(b) THEN Len(a) < Len(b)
    ELSE IF a = "" THEN TRUE
    ELSE IF Char(a, 1) # Char(b, 1) THEN DecDigitVal(Char(a, 1)) < DecDigitVal(Char(b, 1))
    ELSE NumeralLeq(Tail(a), Tail(b))

MaxInt64Numeral == "9223372036854775807"   \* 1<<63 - 1
MinInt64Numeral == "9223372036854775808"   \* magnitude of -1<<63

\* An int64 is kept as its canonical numeral (sign and digits without leading
\* zeros), so that every 64-bit value is representable.
Int64(neg, digits) == [type |-> "int64", neg |-> neg, digits |-> digits]

\* strconv.ParseInt(str, 10, 64): an optional sign, then one or more decimal
\* digits, the value within [-1<<63, 1<<63-1]; anything else is an error.
ParseInt(str) ==
    LET signed == str # "" /\ Char(str, 1) \in {"+", "-"}
        neg    == str # "" /\ Char(str, 1) = "-"
        body   == IF signed THEN Tail(str) ELSE str
        mag    == StripZeros(body)
    IN  IF body = "" \/ \E i \in 1..Len(body) : ~IsDecDigit(Char(body, i))
        THEN [ok |-> FALSE, val |-> Int64(FALSE, "0")]          \* ErrSyntax
        ELSE IF ~NumeralLeq(mag, IF neg THEN MinInt64Numeral ELSE MaxInt64Numeral)
        THEN [ok |-> FALSE,                                      \* ErrRange
              val |-> IF neg THEN Int64(TRUE, MinInt64Numeral)
                             ELSE Int64(FALSE, MaxInt64Numeral)]
        ELSE [ok |-> TRUE, val |-> Int64(neg /\ mag # "0", mag)]

\* strconv.ParseBool
ParseBoolTrue  == {"1", "t", "T", "TRUE", "true", "True"}
ParseBoolFalse == {"0", "f", "F", "FALSE", "false", "False"}

ParseBool(str) ==
    IF str \in ParseBoolTrue THEN [ok |-> TRUE, val |-> TRUE]
    ELSE IF str \in ParseBoolFalse THEN [ok |-> TRUE, val |-> FALSE]
    ELSE [ok |-> FALSE, val |-> FALSE]

(***************************************************************************)
(* stringsToSlice (prober/jsonrpc.go:40-72)                                *)
(***************************************************************************)
\* an element of []interface{}: an int64, a bool or a string
Bool(b) == [type |-> "bool", val |-> b]
Str(str) == [type |-> "string", val |-> str]
Nil == [type |-> "nil"]

\* a variant of the loop body that tries ParseBool before ParseInt
ClassifyPart_BoolFirst(part) ==
    LET p == TrimSpace(part) IN
    IF ParseBool(p).ok THEN Bool(ParseBool(p).val)
    ELSE IF ParseInt(p).ok THEN ParseInt(p).val
    ELSE Str(p)

\* the body of the loop, jsonrpc.go:53-68
ClassifyPart(part) ==
    LET p == TrimSpace(part) IN
    IF ParseInt(p).ok THEN ParseInt(p).val
    ELSE IF ParseBool(p).ok THEN Bool(ParseBool(p).val)
    ELSE Str(p)

\* stringsToSlice as a function of its argument
stringsToSlice(str) ==
    IF str = "" THEN <<>>
    ELSE LET ps == Split(str, ",") IN [i \in 1..Len(ps) |-> ClassifyPart(ps[i])]

\* ---- the same function, statement by statement
Alphabet == {"1", "-", "t", ",", " ", "x"}

RECURSIVE StringsUpTo(_)
StringsUpTo(n) ==
    IF n = 0 THEN {""}
    ELSE LET shorter == StringsUpTo(n - 1) IN
         shorter \cup { str \o c : str \in shorter, c \in Alphabet }

\* the inputs of the repository's TestStringsToSlice, and the limits of int64
NamedInputs ==
    { "42,true,hello,0xabc", "1,2,3,4,5", "true,false,true", "foo,bar,baz",
      " 10 , true , hello ", "T,False,f,TRUE,yes", "+7,-0,007,-12",
      "9223372036854775807,9223372036854775808",
      "-9223372036854775808,-9223372036854775809",
      " \t ", "\t\n", " \r\n " }

SliceInputs == NamedInputs \cup StringsUpTo(MaxLen)

SliceInit ==
    /\ s \in SliceInputs
    /\ parts = <<>>
    /\ result = <<>>
    /\ spc = "call"

\* a variant without the test for the empty string (jsonrpc.go:42-44)
SliceEnter_NoEmptyCheck ==
    /\ spc = "call"
    /\ parts' = Split(s, ",")
    /\ result' = [i \in 1..Len(Split(s, ",")) |-> Nil]
    /\ spc' = "loop"
    /\ UNCHANGED s
    /\ UNCHANGED notSlice

\* jsonrpc.go:42-49
SliceEnter ==
    /\ spc = "call"
    /\ IF s = ""
       THEN /\ parts' = <<>>
            /\ result' = <<>>
            /\ spc' = "done"
       ELSE /\ parts' = Split(s, ",")
            /\ result' = [i \in 1..Len(Split(s, ",")) |-> Nil]
            /\ spc' = "loop"
    /\ UNCHANGED s
    /\ UNCHANGED notSlice

\* one iteration of the loop, jsonrpc.go:51-69, on the first unassigned index
SliceLoop ==
    /\ spc = "loop"
    /\ \E i \in 1..Len(parts) :
          /\ result[i] = Nil
          /\ \A j \in 1..(i - 1) : result[j] # Nil
          /\ result' = [result EXCEPT ![i] = ClassifyPart(parts[i])]
    /\ UNCHANGED <<s, parts, spc>>
    /\ UNCHANGED notSlice

\* jsonrpc.go:71
SliceReturn ==
    /\ spc = "loop"
    /\ \A i \in 1..Len(parts) : result[i] # Nil
    /\ spc' = "done"
    /\ UNCHANGED <<s, parts, result>>
    /\ UNCHANGED notSlice

SliceNext == SliceEnter \/ SliceLoop \/ SliceReturn



(***************************************************************************)
(* resultToFloat64WithDecimals (prober/jsonrpc.go:74-85)                   *)
(***************************************************************************)
HexDigits == "0123456789abcdef"
HexUpper  == "0123456789ABCDEF"

\* the value of character c as a digit, or 36 when it is none (math/big nat.scan)
DigitVal(c) ==
    IF Index(HexDigits, c) # 0 THEN Index(HexDigits, c) - 1
    ELSE IF Index(HexUpper, c) # 0 THEN Index(HexUpper, c) - 1
    ELSE 36

(***************************************************************************)
(* math/big as resultToFloat64WithDecimals uses it. A nat is the sequence  *)
(* of its words, least significant first, without leading zero words (the  *)
(* empty sequence is 0); words have WordBits bits here, so that a product  *)
(* of two words fits the integers of the checker.                          *)
(***************************************************************************)
WordBits == 15
WordBase == 32768

RECURSIVE Pow2(_)
Pow2(k) == IF k = 0 THEN 1 ELSE 2 * Pow2(k - 1)

\* nat.norm
RECURSIVE NatNorm(_)
NatNorm(x) ==
    IF x # <<>> /\ x[Len(x)] = 0 THEN NatNorm(SubSeq(x, 1, Len(x) - 1)) ELSE x

\* nat.setUint64, for a number the checker's integers hold
RECURSIVE NatOfInt(_)
NatOfInt(n) == IF n = 0 THEN <<>> ELSE <<n % WordBase>> \o NatOfInt(n \div WordBase)

\* mulAddVWW on the words lo..hi of x, lo <= hi: the words of x * y + r and the
\* carry c out of them; the lower half of the words goes first
RECURSIVE MulAddVWW(_, _, _, _, _)
MulAddVWW(x, y, r, lo, hi) ==
    IF lo = hi
    THEN [w |-> <<(x[lo] * y + r) % WordBase>>, c |-> (x[lo] * y + r) \div WordBase]
    ELSE LET a == MulAddVWW(x, y, r, lo, (lo + hi) \div 2)
             b == MulAddVWW(x, y, a.c, (lo + hi) \div 2 + 1, hi)
         IN  [w |-> a.w \o b.w, c |-> b.c]

\* nat.mulAddWW: x * y + r for words y and r
NatMulAddWW(x, y, r) ==
    IF x = <<>> \/ y = 0 THEN NatOfInt(r)
    ELSE LET m == MulAddVWW(x, y, r, 1, Len(x))
         IN  IF m.c = 0 THEN m.w ELSE Append(m.w, m.c)

\* nat.cmp: -1, 0 or 1
RECURSIVE NatCmpFrom(_, _, _)
NatCmpFrom(x, y, i) ==
    IF i = 0 THEN 0
    ELSE IF x[i] < y[i] THEN -1
    ELSE IF x[i] > y[i] THEN 1
    ELSE NatCmpFrom(x, y, i - 1)

NatCmp(x, y) ==
    IF Len(x) < Len(y) THEN -1
    ELSE IF Len(x) > Len(y) THEN 1
    ELSE NatCmpFrom(x, y, Len(x))

\* addVV on the words lo..hi of x and y, lo <= hi, with the carry c in: the
\* words of the sum and the carry out of them
Word(x, i) == IF i > Len(x) THEN 0 ELSE x[i]

RECURSIVE AddVV(_, _, _, _, _)
AddVV(x, y, c, lo, hi) ==
    IF lo = hi
    THEN [w |-> <<(Word(x, lo) + Word(y, lo) + c) % WordBase>>,
          c |-> (Word(x, lo) + Word(y, lo) + c) \div WordBase]
    ELSE LET a == AddVV(x, y, c, lo, (lo + hi) \div 2)
             b == AddVV(x, y, a.c, (lo + hi) \div 2 + 1, hi)
         IN  [w |-> a.w \o b.w, c |-> b.c]

\* nat.add
NatAdd(x, y) ==
    IF x = <<>> THEN y
    ELSE IF y = <<>> THEN x
    ELSE LET n == IF Len(x) > Len(y) THEN Len(x) ELSE Len(y)
             a == AddVV(x, y, 0, 1, n)
         IN  IF a.c = 0 THEN a.w ELSE Append(a.w, a.c)

\* subVV on the words lo..hi of x and y, lo <= hi, with the borrow c in
RECURSIVE SubVV(_, _, _, _, _)
SubVV(x, y, c, lo, hi) ==
    IF lo = hi
    THEN [w |-> <<(x[lo] - Word(y, lo) - c) % WordBase>>,
          c |-> IF x[lo] - Word(y, lo) - c < 0 THEN 1 ELSE 0]
    ELSE LET a == SubVV(x, y, c, lo, (lo + hi) \div 2)
             b == SubVV(x, y, a.c, (lo + hi) \div 2 + 1, hi)
         IN  [w |-> a.w \o b.w, c |-> b.c]

\* nat.sub, for x >= y
NatSub(x, y) == IF x = <<>> THEN <<>> ELSE NatNorm(SubVV(x, y, 0, 1, Len(x)).w)

\* nat.mul (basicMul): the words of y from word i downwards, on top of acc
RECURSIVE NatMulFrom(_, _, _, _)
NatMulFrom(x, y, i, acc) ==
    IF i = 0 THEN acc
    ELSE LET next == NatAdd(NatMulAddWW(x, y[i], 0),
                            IF acc = <<>> THEN <<>> ELSE <<0>> \o acc)
         IN  IF Len(next) >= 0 THEN NatMulFrom(x, y, i - 1, next) ELSE <<>>

NatMul(x, y) ==
    IF x = <<>> \/ y = <<>> THEN <<>> ELSE NatMulFrom(x, y, Len(y), <<>>)

\* the number of bits of a word, and nat.bitLen
RECURSIVE WordLen(_)
WordLen(w) == IF w = 0 THEN 0 ELSE 1 + WordLen(w \div 2)

NatBitLen(x) == IF x = <<>> THEN 0 ELSE WordBits * (Len(x) - 1) + WordLen(x[Len(x)])

\* nat.shl
NatShl(x, k) ==
    IF x = <<>> THEN <<>>
    ELSE LET b == k % WordBits
         IN  [i \in 1..(k \div WordBits) |-> 0]
             \o NatNorm([i \in 1..(Len(x) + 1) |->
                           ((Word(x, i) * Pow2(b)) % WordBase)
                           + (IF i = 1 THEN 0 ELSE x[i - 1] \div Pow2(WordBits - b))])

\* nat.shr
NatShr(x, k) ==
    LET b == k % WordBits
        n == k \div WordBits
    IN  IF n >= Len(x) THEN <<>>
        ELSE NatNorm([i \in 1..(Len(x) - n) |->
                        (x[i + n] \div Pow2(b))
                        + (Word(x, i + n + 1) % Pow2(b)) * Pow2(WordBits - b)])

\* divWVW on the words lo..hi of x, lo <= hi, for a word w > 0 and the
\* remainder r < w of the words above: the upper half of the words goes first
RECURSIVE DivWVW(_, _, _, _, _)
DivWVW(x, w, r, lo, hi) ==
    IF lo = hi
    THEN [q |-> <<(r * WordBase + x[lo]) \div w>>, r |-> (r * WordBase + x[lo]) % w]
    ELSE LET a == DivWVW(x, w, r, (lo + hi) \div 2 + 1, hi)
             b == DivWVW(x, w, a.r, lo, (lo + hi) \div 2)
         IN  [q |-> b.q \o a.q, r |-> b.r]

\* nat.divW
NatDivW(x, w) ==
    IF x = <<>> THEN [q |-> <<>>, r |-> <<>>]
    ELSE LET d == DivWVW(x, w, 0, 1, Len(x))
         IN  [q |-> NatNorm(d.q), r |-> NatOfInt(d.r)]

\* nat.bit
NatBit(x, i) ==
    IF i \div WordBits + 1 > Len(x) THEN 0
    ELSE (x[i \div WordBits + 1] \div Pow2(i % WordBits)) % 2

\* nat.sticky: 1 when a bit below bit i is set
NatSticky(x, i) ==
    IF \E j \in 1..Len(x) :
          /\ x[j] # 0
          /\ \/ j < i \div WordBits + 1
             \/ j = i \div WordBits + 1 /\ x[j] % Pow2(i % WordBits) # 0
    THEN 1 ELSE 0

\* one word of the quotient of cur by y, for cur < y * WordBase: its bits from
\* bit b down, on top of the bits d found so far
RECURSIVE NatQuoWord(_, _, _, _)
NatQuoWord(cur, y, d, b) ==
    IF b < 0 THEN d
    ELSE IF NatCmp(NatMulAddWW(y, d + Pow2(b), 0), cur) <= 0
    THEN NatQuoWord(cur, y, d + Pow2(b), b - 1)
    ELSE NatQuoWord(cur, y, d, b - 1)

\* nat.divLarge: the words of the quotient from word n of x downwards, with the
\* remainder rem of the words above and the quotient words q found so far
RECURSIVE NatDivLargeFrom(_, _, _, _, _)
NatDivLargeFrom(x, y, n, rem, q) ==
    IF n = 0 THEN [q |-> NatNorm(q), r |-> rem]
    ELSE LET cur == NatNorm(<<x[n]>> \o rem)
             d   == NatQuoWord(cur, y, 0, WordBits - 1)
             nr  == NatSub(cur, NatMulAddWW(y, d, 0))
         IN  IF Len(nr) >= 0
             THEN NatDivLargeFrom(x, y, n - 1, nr, <<d>> \o q)
             ELSE [q |-> <<>>, r |-> <<>>]

NatDivLarge(x, y) ==
    IF Len(x) < Len(y) THEN [q |-> <<>>, r |-> x]
    ELSE NatDivLargeFrom(x, y, Len(x) - Len(y) + 1,
                         NatNorm(SubSeq(x, Len(x) - Len(y) + 2, Len(x))), <<>>)

NatDiv(x, y) == IF Len(y) = 1 THEN NatDivW(x, y[1]) ELSE NatDivLarge(x, y)

\* the number of zero bits at the low end of x # 0 (nat.trailingZeroBits)
RECURSIVE WordTrailingZeros(_)
WordTrailingZeros(w) == IF w % 2 = 1 THEN 0 ELSE 1 + WordTrailingZeros(w \div 2)

RECURSIVE NatTrailingZeroBits(_)
NatTrailingZeroBits(x) ==
    IF x[1] # 0 THEN WordTrailingZeros(x[1])
    ELSE WordBits + NatTrailingZeroBits(Tail(x))

\* 10^k (nat.expNN)
RECURSIVE NatPow10(_)
NatPow10(k) ==
    IF k = 0 THEN <<1>>
    ELSE IF k % 2 = 0
    THEN LET h == NatPow10(k \div 2) IN IF Len(h) > 0 THEN NatMul(h, h) ELSE <<>>
    ELSE NatMulAddWW(NatPow10(k - 1), 10, 0)

(***************************************************************************)
(* float64 and big.Float values: zero, infinite, or mant * 2^exp with an   *)
(* odd mant, so that two values are equal as records exactly when they are *)
(* equal as numbers.                                                       *)
(***************************************************************************)
Finite(neg, mant, exp) == [kind |-> "finite", neg |-> neg, mant |-> mant, exp |-> exp]
Zero(neg) == [kind |-> "zero", neg |-> neg]
Inf(neg) == [kind |-> "inf", neg |-> neg]
NaNPanic == [kind |-> "panic"]     \* panic(big.ErrNaN)

\* the value mant * 2^exp, mant # 0, with the zero bits at the low end of mant removed
Normal(neg, mant, exp) ==
    LET tz == NatTrailingZeroBits(mant)
    IN  Finite(neg, NatShr(mant, tz), exp + tz)

\* (*big.Float).round: mant * 2^exp (and, when sbit = 1, a little more) to the
\* nearest number of prec >= 1 bits, to even on a tie
Round(mant, exp, sbit, prec) ==
    LET grow == IF NatBitLen(mant) - prec < 2 THEN 2 - (NatBitLen(mant) - prec) ELSE 0
        m    == IF grow = 0 THEN mant ELSE NatShl(mant, grow)
        drop == NatBitLen(m) - prec
        q    == NatShr(m, drop)
        rbit == NatBit(m, drop - 1)
        rest == IF sbit = 1 THEN 1 ELSE NatSticky(m, drop - 1)
        up   == rbit = 1 /\ (rest = 1 \/ q[1] % 2 = 1)
    IN  [mant |-> IF up THEN NatAdd(q, <<1>>) ELSE q, exp |-> exp - grow + drop]

\* (*big.Float).Float64, and the rounding of the processor: the float64
\* nearest to mant * 2^exp, mant # 0
MantBits == 53       \* the precision of a float64
MaxExp == 1023       \* the largest exponent of a float64
MinExp == -1022      \* the smallest exponent of a normal float64

ToFloat64(neg, mant, exp, sbit) ==
    LET e == exp + NatBitLen(mant) - 1
        p == IF e < MinExp THEN MantBits + e - MinExp ELSE MantBits
    IN  IF p < 0 THEN Zero(neg)
        ELSE IF p = 0
        THEN (IF sbit = 0 /\ NatTrailingZeroBits(mant) = NatBitLen(mant) - 1
              THEN Zero(neg) ELSE Finite(neg, <<1>>, MinExp - MantBits + 1))
        ELSE LET r == Round(mant, exp, sbit, p)
             IN  IF r.exp + NatBitLen(r.mant) - 1 > MaxExp THEN Inf(neg)
                 ELSE Normal(neg, r.mant, r.exp)

\* the quotient x / y of two nats # 0 as mant * 2^exp with at least bits bits,
\* sbit = 1 when the division left a remainder (nat.div in Float.uquo)
NatQuo(x, y, bits) ==
    LET k == IF bits + NatBitLen(y) - NatBitLen(x) > 0
             THEN bits + NatBitLen(y) - NatBitLen(x) ELSE 0
        d == NatDiv(IF k = 0 THEN x ELSE NatShl(x, k), y)
    IN  [mant |-> d.q, exp |-> 0 - k, sbit |-> IF d.r = <<>> THEN 0 ELSE 1]

\* the float64 constants 1e<k> and 1e-<k> of the tables of math.Pow10
Lit1e(k) == ToFloat64(FALSE, NatPow10(k), 0, 0)
Lit1eMinus(k) ==
    LET d == NatQuo(<<1>>, NatPow10(k), MantBits + 2)
    IN  ToFloat64(FALSE, d.mant, d.exp, d.sbit)

\* a * b and a / b of the processor, for finite positive a and b
F64Mul(a, b) == ToFloat64(FALSE, NatMul(a.mant, b.mant), a.exp + b.exp, 0)
F64Div(a, b) ==
    LET d == NatQuo(a.mant, b.mant, MantBits + 2)
    IN  ToFloat64(FALSE, d.mant, a.exp + d.exp - b.exp, d.sbit)

MaxPow10 == 308      \* math.Pow10(n) is +Inf above
MinPow10 == -323     \* math.Pow10(n) is 0 below
TabLen == 32         \* len(pow10tab)

\* math.Pow10
Pow10(n) ==
    IF 0 <= n /\ n <= MaxPow10
    THEN F64Mul(Lit1e(TabLen * (n \div TabLen)), Lit1e(n % TabLen))
    ELSE IF MinPow10 <= n /\ n <= 0
    THEN F64Div(Lit1eMinus(TabLen * ((0 - n) \div TabLen)), Lit1e((0 - n) % TabLen))
    ELSE IF n > 0 THEN Inf(FALSE)
    ELSE Zero(FALSE)

\* new(big.Float).SetInt(x): exact, with the precision max(x.BitLen(), 64)
MinPrec == 64
SetIntPrec(abs) == IF NatBitLen(abs) > MinPrec THEN NatBitLen(abs) ELSE MinPrec

\* new(big.Float).Quo(new(big.Float).SetInt(x), big.NewFloat(y)).Float64() for
\* the Int x = [neg, abs] and the float64 y >= 0
Quo(x, y) ==
    IF x.abs = <<>> /\ y.kind = "zero" THEN NaNPanic
    ELSE IF x.abs = <<>> \/ y.kind = "inf" THEN Zero(x.neg)
    ELSE IF y.kind = "zero" THEN Inf(x.neg)
    ELSE LET d == NatQuo(x.abs, y.mant, SetIntPrec(x.abs) + 2)
             z == Round(d.mant, d.exp - y.exp, d.sbit, SetIntPrec(x.abs))
         IN  ToFloat64(x.neg, z.mant, z.exp, 0)

\* the number of digits of the given base at the front of str
DigitCount(str, base) ==
    LET stops == {i \in 1..Len(str) : DigitVal(Char(str, i)) >= base}
    IN  IF stops = {} THEN Len(str)
        ELSE (CHOOSE i \in stops : \A j \in stops : i <= j) - 1

RECURSIVE IntPow(_, _)
IntPow(b, n) == IF n = 0 THEN 1 ELSE b * IntPow(b, n - 1)

\* maxPow: the largest number of digits of the base that one word holds
MaxPowLen(base) ==
    CHOOSE n \in 1..WordBits :
        IntPow(base, n) < WordBase /\ IntPow(base, n + 1) >= WordBase

\* the word that the digits lo..hi of str make
RECURSIVE DigitsWord(_, _, _, _)
DigitsWord(str, base, lo, hi) ==
    IF hi < lo THEN 0
    ELSE DigitsWord(str, base, lo, hi - 1) * base + DigitVal(Char(str, hi))

\* nat.scan: the digits i..n of str, a word of digits at a time, on top of acc
RECURSIVE ScanWords(_, _, _, _, _)
ScanWords(str, base, i, n, acc) ==
    IF i > n THEN acc
    ELSE LET hi   == IF i + MaxPowLen(base) - 1 < n THEN i + MaxPowLen(base) - 1 ELSE n
             next == NatMulAddWW(acc, IntPow(base, hi - i + 1),
                                 DigitsWord(str, base, i, hi))
         IN  IF Len(next) >= 0 THEN ScanWords(str, base, hi + 1, n, next) ELSE <<>>

\* nat.scan: the digits of the given base at the front of str, accumulated
ScanDigits(str, base) ==
    [abs   |-> ScanWords(str, base, 1, DigitCount(str, base), <<>>),
     count |-> DigitCount(str, base),
     rest  |-> SubSeq(str, DigitCount(str, base) + 1, Len(str))]

\* (*big.Int).SetString(str, base) on a fresh Int. The caller ignores the
\* result, and reads the receiver: 0 when no digit was scanned, the value of the
\* digits scanned so far when the scan stopped before the end of the string.
SetString(str, base) ==
    LET signed == str # "" /\ Char(str, 1) \in {"+", "-"}
        scan   == ScanDigits(IF signed THEN Tail(str) ELSE str, base)
    IN  [ok  |-> scan.count > 0 /\ scan.rest = "",
         neg |-> scan.count > 0 /\ scan.abs # <<>> /\ Char(str, 1) = "-",
         abs |-> IF scan.count = 0 THEN <<>> ELSE scan.abs]

\* a variant that reads every result in base 10
resultToFloat64WithDecimals_Base10(res, decimals) ==
    Quo(SetString(res, 10), Pow10(decimals))

\* jsonrpc.go:76-81: the big.Int the result text leaves in resultInt
ResultInt(res) ==
    LET parsed == IF HasPrefix(res, "0x")
                  THEN SetString(TrimPrefix(res, "0x"), 16)
                  ELSE SetString(res, 10)
    IN  [neg |-> parsed.neg, abs |-> parsed.abs]

resultToFloat64WithDecimals(res, decimals) ==
    Quo(ResultInt(res), Pow10(decimals))

\* float64(n) for an integer n > 0 of the checker
Float64OfInt(n) == ToFloat64(FALSE, NatOfInt(n), 0, 0)

(***************************************************************************)
(* JSON values, encoding/json, jmespath and fmt as ProbeJSONRPC uses them  *)
(***************************************************************************)
JString(v) == [t |-> "string", v |-> v]
JNumber(n) == [t |-> "number", n |-> n]
JObject(fields) == [t |-> "object", fields |-> fields]
JNull == [t |-> "null"]
\* a json.RawMessage that was never written (a batch element that failed)
NilRaw == [t |-> "nil"]

\* json.Unmarshal(raw, &r) for r a string: a JSON string is unquoted, null
\* leaves r as it was (""), anything else is an error
UnmarshalString(msg) ==
    IF msg.t = "string" THEN [ok |-> TRUE, val |-> msg.v]
    ELSE IF msg.t = "null" THEN [ok |-> TRUE, val |-> ""]
    ELSE [ok |-> FALSE, val |-> ""]

\* json.Unmarshal(raw, &jsonData) for jsonData an interface{}
UnmarshalAny(msg) ==
    IF msg.t = "nil" THEN [ok |-> FALSE, val |-> JNull] ELSE [ok |-> TRUE, val |-> msg]

IdentStart == "abcdefghijklmnopqrstuvwxyzABCDEFGHIJKLMNOPQRSTUVWXYZ_"

IsIdentifier(e) ==
    /\ e # ""
    /\ Index(IdentStart, Char(e, 1)) # 0
    /\ \A k \in 1..Len(e) : Index(IdentStart, Char(e, k)) # 0 \/ IsDecDigit(Char(e, k))

\* a variant of Search that reports no syntax error
Search_Lenient(expr, data) ==
    LET e == TrimSpace(expr) IN
    IF data.t = "object" /\ e \in DOMAIN data.fields
    THEN [ok |-> TRUE, val |-> data.fields[e]]
    ELSE [ok |-> TRUE, val |-> JNull]

\* jmespath.Search(expr, data), for the expressions of the model: an unquoted
\* identifier selects that field of an object and is null on anything else
\* (a missing field is no error); every other expression of the model ("[",
\* "a..b") is a syntax error. The lexer skips surrounding whitespace.
Search(expr, data) ==
    LET e == TrimSpace(expr) IN
    IF ~IsIdentifier(e) THEN [ok |-> FALSE, val |-> JNull]
    ELSE IF data.t = "object" /\ e \in DOMAIN data.fields
    THEN [ok |-> TRUE, val |-> data.fields[e]]
    ELSE [ok |-> TRUE, val |-> JNull]

RECURSIVE Itoa(_)
Itoa(n) ==
    IF n < 10 THEN Char(DecDigits, n + 1) ELSE Itoa(n \div 10) \o Char(DecDigits, (n % 10) + 1)

\* largest whole number that fmt prints without an exponent under %v
MaxPlainFloat == 999999

\* fmt.Sprintf("%v", v) for what Search returns in the model: a string, nil, or
\* a float64 holding a whole number below 1e6
Sprint(v) ==
    CASE v.t = "string" -> v.v
      [] v.t = "null"   -> "<nil>"
      [] v.t = "number" /\ v.n \in 0..MaxPlainFloat -> Itoa(v.n)


(***************************************************************************)
(* parseJSONRPCParams: called at jsonrpc.go:284 and :335, defined outside  *)
(* the files at hand; modelled from the specification, section 4.1.        *)
(***************************************************************************)
ParseError == [ok |-> FALSE, args |-> <<>>]

\* the fields of a call object: key:value pairs, those with an empty value left out
CallObject(fields) ==
    [type |-> "object",
     pairs |-> { <<SubSeq(fields[k], 1, Index(fields[k], ":") - 1),
                   SubSeq(fields[k], Index(fields[k], ":") + 1, Len(fields[k]))>> :
                 k \in { j \in 1..Len(fields) : Index(fields[j], ":") < Len(fields[j]) } }]

Literals(text) ==
    IF text = "" THEN <<>>
    ELSE LET ps == Split(text, ",") IN [k \in 1..Len(ps) |-> Str(ps[k])]

parseJSONRPCParams(text) ==
    IF HasPrefix(text, "{")
    THEN LET close  == Index(text, "}")
             body   == SubSeq(text, 2, close - 1)
             rest   == SubSeq(text, close + 1, Len(text))
             fields == IF body = "" THEN <<>> ELSE Split(body, ",")
         IN  IF \/ close = 0                                       \* unbalanced
                \/ "{" \in Chars(body)
                \/ Chars(rest) \cap {"{", "}"} # {}
                \/ \E k \in 1..Len(fields) : Index(fields[k], ":") <= 1   \* no key
                \/ rest # "" /\ ~HasPrefix(rest, ",")
             THEN ParseError
             ELSE [ok |-> TRUE, args |-> <<CallObject(fields)>> \o Literals(TrimPrefix(rest, ","))]
    ELSE IF Chars(text) \cap {"{", "}"} # {} THEN ParseError          \* unbalanced
    ELSE [ok |-> TRUE, args |-> Literals(text)]

(***************************************************************************)
(* ProbeJSONRPC (prober/jsonrpc.go:243-389)                                *)
(***************************************************************************)
Columns == {"method", "arg", "decimal", "tag", "resultJMESPath"}
\* the keys a parameter map holds here: those ProbeJSONRPC reads, and the keys
\* args and decimals of TestProbeJsonRPC, which it does not read
Keys == Columns \cup {"module", "disableBatch", "args", "decimals"}

\* url.Values.Get
Get(values, key) == IF values[key] = <<>> THEN "" ELSE values[key][1]

\* the local names of jsonrpc.go:253-257
methods == params["method"]
args == params["arg"]
decimals == params["decimal"]
tags == params["tag"]
resultJMESPath == params["resultJMESPath"]

\* jsonrpc.go:244-246
SchemedTarget(t) ==
    IF ~HasPrefix(t, "http://") /\ ~HasPrefix(t, "https://") THEN "http://" \o t ELSE t

\* ethclient.Dial(target), jsonrpc.go:247: for an http(s) URL it connects to
\* nothing and fails only when the URL does not parse, which among the targets
\* of the model is the one with a space in its host
DialFails(t) == " " \in Chars(t)

\* a variant that lets the empty parameter map through
AnyColumnEmpty_MethodsOnly == Len(methods) = 0 /\ Len(args) # 0

\* jsonrpc.go:259
AnyColumnEmpty ==
    \/ Len(methods) = 0 \/ Len(args) = 0 \/ Len(decimals) = 0
    \/ Len(tags) = 0 \/ Len(resultJMESPath) = 0

\* a variant that leaves resultJMESPath out of the comparison
ColumnLengthsDiffer_FourColumns ==
    \/ Len(methods) # Len(args) \/ Len(methods) # Len(decimals)
    \/ Len(methods) # Len(tags)

\* jsonrpc.go:264
ColumnLengthsDiffer ==
    \/ Len(methods) # Len(args) \/ Len(methods) # Len(decimals)
    \/ Len(methods) # Len(tags) \/ Len(methods) # Len(resultJMESPath)

\* the registry: whether the caller handed it over with a collector named
\* probe_jsonrpc already in it, whether this invocation's GaugeVec is
\* registered, and the series of that GaugeVec
FreshRegistry(occupied) == [occupied |-> occupied, vec |-> FALSE, series |-> {}]

\* GaugeVec.WithLabelValues(labels...).Set(value)
SetGauge(series, labels, value) ==
    { m \in series : m.labels # labels } \cup {[labels |-> labels, value |-> value]}

\* decimalsInt, _ := strconv.ParseInt(decimals[i], 10, 64): the error is dropped.
\* An exponent of more than three digits acts as any exponent out of the range
\* of math.Pow10 does.
RECURSIVE NumeralVal(_)
NumeralVal(digits) ==
    IF digits = "" THEN 0
    ELSE 10 * NumeralVal(SubSeq(digits, 1, Len(digits) - 1))
         + DecDigitVal(Char(digits, Len(digits)))

DecimalsInt(text) ==
    LET v == ParseInt(text).val IN
    IF Len(v.digits) > 3 THEN (IF v.neg THEN MinPow10 - 1 ELSE MaxPow10 + 1)
    ELSE IF v.neg THEN 0 - NumeralVal(v.digits) ELSE NumeralVal(v.digits)

\* a variant that drops the errors of json.Unmarshal and jmespath.Search
SingleResultString_ErrorsDropped(k) ==
    IF TrimSpace(resultJMESPath[k]) # ""
    THEN LET jsonData == UnmarshalAny(raw[k])
             sr == Search(resultJMESPath[k], jsonData.val)
         IN  [ok |-> TRUE, r |-> Sprint(sr.val)]
    ELSE [ok |-> TRUE, r |-> UnmarshalString(raw[k]).val]

\* jsonrpc.go:297-316: the string r of descriptor k from the raw result
SingleResultString(k) ==
    IF TrimSpace(resultJMESPath[k]) # ""
    THEN LET jsonData == UnmarshalAny(raw[k]) IN
         IF ~jsonData.ok THEN [ok |-> FALSE, r |-> ""]
         ELSE LET sr == Search(resultJMESPath[k], jsonData.val) IN
              IF ~sr.ok THEN [ok |-> FALSE, r |-> ""]
              ELSE [ok |-> TRUE, r |-> Sprint(sr.val)]
    ELSE LET str == UnmarshalString(raw[k]) IN
         IF ~str.ok THEN [ok |-> FALSE, r |-> ""] ELSE [ok |-> TRUE, r |-> str.val]

\* the same variant for the batch
BatchResultString_ErrorsDropped(k) ==
    IF TrimSpace(resultJMESPath[k]) # ""
    THEN LET jsonData == UnmarshalAny(raw[k])
             sr == Search(resultJMESPath[k], jsonData.val)
         IN  [ok |-> TRUE, r |-> Sprint(sr.val)]
    ELSE [ok |-> TRUE, r |-> UnmarshalString(raw[k]).val]

\* a variant in which the element's Result is a *string, as at jsonrpc.go:170-195:
\* an element that came back with an error leaves "" in it, which is read
BatchResultString_StringResult(k) ==
    IF raw[k] = NilRaw THEN [ok |-> TRUE, r |-> ""]
    ELSE IF TrimSpace(resultJMESPath[k]) # ""
    THEN LET sr == Search(resultJMESPath[k], raw[k]) IN
         IF ~sr.ok THEN [ok |-> FALSE, r |-> ""]
         ELSE [ok |-> TRUE, r |-> Sprint(sr.val)]
    ELSE LET str == UnmarshalString(raw[k]) IN
         IF ~str.ok THEN [ok |-> FALSE, r |-> ""] ELSE [ok |-> TRUE, r |-> str.val]

\* jsonrpc.go:355-375: the same for element k of the batch
BatchResultString(k) ==
    IF TrimSpace(resultJMESPath[k]) # ""
    THEN LET rawMsg == raw[k]
             jsonData == UnmarshalAny(rawMsg)
         IN  IF ~jsonData.ok THEN [ok |-> FALSE, r |-> ""]
             ELSE LET sr == Search(resultJMESPath[k], jsonData.val) IN
                  IF ~sr.ok THEN [ok |-> FALSE, r |-> ""]
                  ELSE [ok |-> TRUE, r |-> Sprint(sr.val)]
    ELSE LET rawMsg == raw[k]
             str == UnmarshalString(rawMsg)
         IN  IF ~str.ok THEN [ok |-> FALSE, r |-> ""] ELSE [ok |-> TRUE, r |-> str.val]

\* a variant with the argument text as given
GaugeLabels_RawArg(k) == <<rpc, methods[k], args[k], tags[k]>>

\* jsonrpc.go:323-328 and :378-383: the label values of descriptor k
GaugeLabels(k) == <<rpc, methods[k], TrimSpace(args[k]), tags[k]>>

\* one element of the batch, jsonrpc.go:340-345
BatchElem(k) == [Method |-> methods[k], Args |-> parseJSONRPCParams(args[k]).args]

\* ---- the endpoint
RpcResult(json) == [kind |-> "result", json |-> json]
RpcError == [kind |-> "error"]

\* The endpoint answers the call or batch element of descriptor k with
\* reply[k], a result or a JSON-RPC error object; the failAt-th request sent to
\* it fails as a whole (connection refused, non-2xx status), none when 0.
Endpoint(reply, failAt) == [reply |-> reply, failAt |-> failAt]

\* ---- the steps
Return(value) ==
    /\ success' = value
    /\ pc' = "done"

\* jsonrpc.go:244-251
Dial ==
    /\ pc = "entry"
    /\ rpc' = SchemedTarget(target)
    /\ IF DialFails(SchemedTarget(target)) THEN Return(FALSE)
       ELSE pc' = "columns" /\ UNCHANGED success
    /\ UNCHANGED <<target, params, endpoint, registry, idx, batch, raw, wire, sets, run, first>>
    /\ UNCHANGED notProbe

\* jsonrpc.go:253-267
CheckColumns ==
    /\ pc = "columns"
    /\ IF AnyColumnEmpty THEN Return(FALSE)
       ELSE IF ColumnLengthsDiffer THEN Return(FALSE)
       ELSE pc' = "switch" /\ UNCHANGED success
    /\ UNCHANGED <<target, params, endpoint, registry, rpc, idx, batch, raw, wire, sets, run, first>>
    /\ UNCHANGED notProbe

\* a variant whose switch has a default case that registers the GaugeVec and
\* returns false
Register_DefaultCase ==
    /\ pc = "switch"
    /\ IF Get(params, "module") = "jsonrpc"
       THEN IF registry.occupied
            THEN /\ pc' = "panic"
                 /\ UNCHANGED <<registry, success, idx, raw>>
            ELSE /\ registry' = [registry EXCEPT !.vec = TRUE]
                 /\ raw' = [k \in 1..Len(methods) |-> NilRaw]
                 /\ idx' = 1
                 /\ pc' = IF Get(params, "disableBatch") = "true" THEN "single" ELSE "build"
                 /\ UNCHANGED success
       ELSE /\ Return(FALSE)
            /\ registry' = [registry EXCEPT !.vec = TRUE]
            /\ UNCHANGED <<idx, raw>>
    /\ UNCHANGED <<target, params, endpoint, rpc, batch, wire, sets, run, first>>
    /\ UNCHANGED notProbe

\* jsonrpc.go:269-281, and :388 for any other module
Register ==
    /\ pc = "switch"
    /\ IF Get(params, "module") = "jsonrpc"
       THEN IF registry.occupied
            THEN /\ pc' = "panic"               \* MustRegister: AlreadyRegisteredError
                 /\ UNCHANGED <<registry, success, idx, raw>>
            ELSE /\ registry' = [registry EXCEPT !.vec = TRUE]
                 /\ raw' = [k \in 1..Len(methods) |-> NilRaw]
                 /\ idx' = 1
                 /\ pc' = IF Get(params, "disableBatch") = "true" THEN "single" ELSE "build"
                 /\ UNCHANGED success
       ELSE /\ Return(TRUE)
            /\ UNCHANGED <<registry, idx, raw>>
    /\ UNCHANGED <<target, params, endpoint, rpc, batch, wire, sets, run, first>>
    /\ UNCHANGED notProbe


\* jsonrpc.go:282-289: the head of the loop without batching, up to the call
SingleCall ==
    /\ pc = "single"
    /\ IF idx > Len(methods)
       THEN Return(TRUE) /\ UNCHANGED wire                         \* :388
       ELSE IF ~parseJSONRPCParams(args[idx]).ok
       THEN Return(FALSE) /\ UNCHANGED wire                        \* :285-288
       ELSE /\ wire' = Append(wire, [kind |-> "call", method |-> methods[idx],
                                     args |-> parseJSONRPCParams(args[idx]).args])
            /\ pc' = "awaitCall"
            /\ UNCHANGED success
    /\ UNCHANGED <<target, params, endpoint, registry, rpc, idx, batch, raw, sets, run, first>>
    /\ UNCHANGED notProbe

\* jsonrpc.go:289-293: Call returns
SingleReply ==
    /\ pc = "awaitCall"
    /\ ~silent
    /\ IF endpoint.failAt = Len(wire) \/ endpoint.reply[idx].kind = "error"
       THEN Return(FALSE) /\ UNCHANGED raw
       ELSE /\ raw' = [raw EXCEPT ![idx] = endpoint.reply[idx].json]
            /\ pc' = "extract"
            /\ UNCHANGED success
    /\ UNCHANGED <<target, params, endpoint, registry, rpc, idx, batch, wire, sets, run, first>>
    /\ UNCHANGED notProbe

\* jsonrpc.go:297-328: decode, extract, scale, set the gauge
SingleExtract ==
    /\ pc = "extract"
    /\ \E str \in {SingleResultString(idx)} :
       \E value \in {resultToFloat64WithDecimals(str.r, DecimalsInt(decimals[idx]))} :
           IF ~str.ok
           THEN Return(FALSE) /\ UNCHANGED <<registry, sets, idx>>
           ELSE IF value = NaNPanic
           THEN pc' = "panic" /\ UNCHANGED <<registry, sets, idx, success>>
           ELSE /\ registry' = [registry EXCEPT
                                   !.series = SetGauge(@, GaugeLabels(idx), value)]
                /\ sets' = Append(sets, [k |-> idx, labels |-> GaugeLabels(idx),
                                         value |-> value])
                /\ idx' = idx + 1
                /\ pc' = "single"
                /\ UNCHANGED success
    /\ UNCHANGED <<target, params, endpoint, rpc, batch, raw, wire, run, first>>
    /\ UNCHANGED notProbe

\* jsonrpc.go:332-346: the batch is built, every argument text parsed
BatchBuild ==
    /\ pc = "build"
    /\ IF \E k \in 1..Len(methods) : ~parseJSONRPCParams(args[k]).ok
       THEN Return(FALSE) /\ UNCHANGED batch                       \* :336-339
       ELSE /\ batch' = [k \in 1..Len(methods) |-> BatchElem(k)]
            /\ pc' = "submit"
            /\ UNCHANGED success
    /\ UNCHANGED <<target, params, endpoint, registry, rpc, idx, raw, wire, sets, run, first>>
    /\ UNCHANGED notProbe

\* jsonrpc.go:348: BatchCall sends the batch as one request
BatchSubmit ==
    /\ pc = "submit"
    /\ wire' = Append(wire, [kind |-> "batch", elems |-> batch])
    /\ pc' = "awaitBatch"
    /\ UNCHANGED <<target, params, endpoint, registry, success, rpc, idx, batch, raw, sets,
                   run, first>>
    /\ UNCHANGED notProbe

\* jsonrpc.go:348-352: BatchCall returns; an element the endpoint answered with
\* an error keeps its Result unwritten
BatchReply ==
    /\ pc = "awaitBatch"
    /\ ~silent
    /\ IF endpoint.failAt = Len(wire)
       THEN Return(FALSE) /\ UNCHANGED <<raw, idx>>
       ELSE /\ raw' = [k \in 1..Len(batch) |->
                          IF endpoint.reply[k].kind = "result"
                          THEN endpoint.reply[k].json ELSE NilRaw]
            /\ idx' = 1
            /\ pc' = "walk"
            /\ UNCHANGED success
    /\ UNCHANGED <<target, params, endpoint, registry, rpc, batch, wire, sets, run, first>>
    /\ UNCHANGED notProbe

\* jsonrpc.go:353-384: one element of the answered batch, and :388 after the last
BatchExtract ==
    /\ pc = "walk"
    /\ IF idx > Len(batch)
       THEN Return(TRUE) /\ UNCHANGED <<registry, sets, idx>>
       ELSE \E str \in {BatchResultString(idx)} :
            \E value \in {resultToFloat64WithDecimals(str.r, DecimalsInt(decimals[idx]))} :
                IF ~str.ok
                THEN Return(FALSE) /\ UNCHANGED <<registry, sets, idx>>
                ELSE IF value = NaNPanic
                THEN pc' = "panic" /\ UNCHANGED <<registry, sets, idx, success>>
                ELSE /\ registry' = [registry EXCEPT
                                        !.series = SetGauge(@, GaugeLabels(idx), value)]
                     /\ sets' = Append(sets, [k |-> idx, labels |-> GaugeLabels(idx),
                                              value |-> value])
                     /\ idx' = idx + 1
                     /\ UNCHANGED <<pc, success>>
    /\ UNCHANGED <<target, params, endpoint, rpc, batch, raw, wire, run, first>>
    /\ UNCHANGED notProbe

\* After a probe without batching the caller probes the same target with the
\* same descriptors once more, with batching and with a registry of its own, as
\* TestJsonrpcModuleProbeParams does (ethrpc_test.go:417-449).
Reinvoke ==
    /\ pc = "done"
    /\ run = 1
    /\ Get(params, "disableBatch") = "true"
    /\ first' = [success |-> success, series |-> registry.series]
    /\ run' = 2
    /\ params' = [params EXCEPT !["disableBatch"] = <<"false">>]
    /\ registry' = FreshRegistry(registry.occupied)
    /\ pc' = "entry"
    /\ success' = FALSE
    /\ rpc' = ""
    /\ idx' = 0
    /\ batch' = <<>>
    /\ raw' = <<>>
    /\ wire' = <<>>
    /\ sets' = <<>>
    /\ UNCHANGED <<target, endpoint>>
    /\ UNCHANGED notProbe

ProbeNext ==
    \/ Dial \/ CheckColumns \/ Register
    \/ SingleCall \/ SingleReply \/ SingleExtract
    \/ BatchBuild \/ BatchSubmit \/ BatchReply \/ BatchExtract
    \/ Reinvoke

(***************************************************************************)
(* The invocations the model runs.                                         *)
(***************************************************************************)
Descriptor(method, arg, decimal, tag, path) ==
    [method |-> method, arg |-> arg, decimal |-> decimal, tag |-> tag,
     resultJMESPath |-> path]

BlockNumber == Descriptor("eth_blockNumber", "", "0", "BlockNumber", "")
WalletZero ==
    Descriptor("eth_getBalance", "0x0000000000000000000000000000000000000000", "18",
               "WalletZero", "")

\* descriptors put together in one probe: an argument with whitespace around it
\* and a blank expression; two with the same labels, of which one names a field
\* that blocks lack; a call object whose brace is not closed
Descriptors ==
    { Descriptor("eth_getBalance", " 0xabc ", "2", "Wallet", " "),
      Descriptor("eth_getBlockByNumber", "safe,false", "0", "SafeBlock", "number"),
      Descriptor("eth_getBlockByNumber", "safe,false", "1", "SafeBlock", "missing"),
      Descriptor("eth_call", "{to:0x3c,data:0x8d", "0", "Owner", "") }

\* descriptors probed alone: those, the ones of the tests (part_000:38-123,
\* ethrpc_test.go:417-477), an expression that does not parse, a scale that is
\* no number, and scales beyond the range of math.Pow10
MoreDescriptors ==
    Descriptors \cup
    { BlockNumber,
      Descriptor("eth_call", "{from:,to:0x3c,data:0x8d},latest", "0", "Owner", ""),
      Descriptor("eth_chainId", "", "x", "Chain", "["),
      Descriptor("eth_getBalance", "0x0", "-400", "Wallet", ""),
      Descriptor("eth_getBalance", "0x0", "400", "Wallet", "number") }

Block == JObject([number |-> JString("0x10"), hash |-> JString("0xab")])

Replies == { RpcResult(JString("0x1234")), RpcResult(Block), RpcError }

MoreReplies ==
    Replies \cup
    { RpcResult(JNull), RpcResult(JNumber(21)), RpcResult(JString("12abc")),
      RpcResult(JString("0x0")), RpcResult(JObject([number |-> JNumber(21)])) }

Targets == {"https://rpc.example/eth", "localhost:8545", "http://bad host"}

Modules == {<<"jsonrpc">>, <<>>, <<"http_2xx">>}

BatchFlags == {<<>>, <<"true">>}

\* the parameter map of a list of descriptors
ParamsOf(rows, module, flag) ==
    [key \in Keys |->
        IF key = "module" THEN module
        ELSE IF key = "disableBatch" THEN flag
        ELSE IF key \in {"args", "decimals"} THEN <<>>
        ELSE [k \in 1..Len(rows) |-> rows[k][key]]]

\* the parameter map of a list of descriptors that names the argument column
\* args and the scale column decimals, as the first case of TestProbeJsonRPC does
ParamsOfPlural(rows, module, flag) ==
    [key \in Keys |->
        IF key = "module" THEN module
        ELSE IF key = "disableBatch" THEN flag
        ELSE IF key \in {"arg", "decimal"} THEN <<>>
        ELSE IF key = "args" THEN [k \in 1..Len(rows) |-> rows[k]["arg"]]
        ELSE IF key = "decimals" THEN [k \in 1..Len(rows) |-> rows[k]["decimal"]]
        ELSE [k \in 1..Len(rows) |-> rows[k][key]]]

\* a parameter map whose columns have the lengths given, every row BlockNumber
ParamsOfLengths(lengths, module, flag) ==
    [key \in Keys |->
        IF key = "module" THEN module
        ELSE IF key = "disableBatch" THEN flag
        ELSE IF key \in {"args", "decimals"} THEN <<>>
        ELSE [k \in 1..lengths[key] |-> BlockNumber[key]]]

Sequences(set, n) == UNION { [1..m -> set] : m \in 1..n }

\* (a) columns of every combination of lengths, every module
InitShapes ==
    \E lengths \in [Columns -> 0..MaxN], module \in Modules, flag \in BatchFlags :
        /\ target = "https://rpc.example/eth"
        /\ params = ParamsOfLengths(lengths, module, flag)
        /\ endpoint = Endpoint([k \in 1..MaxN |-> RpcResult(JString("0x1234"))], 0)
        /\ registry = FreshRegistry(FALSE)

\* (b) up to MaxN descriptors, each with its reply, any one request failing
InitTables ==
    \E rows \in Sequences(Descriptors, MaxN), flag \in BatchFlags :
        \E reply \in [1..Len(rows) -> Replies], failAt \in 0..Len(rows) :
            /\ target = "localhost:8545"
            /\ params = ParamsOf(rows, <<"jsonrpc">>, flag)
            /\ endpoint = Endpoint(reply, failAt)
            /\ registry = FreshRegistry(FALSE)

\* (c) one descriptor, every target, module and registry
InitSingle ==
    \E row \in MoreDescriptors, reply \in MoreReplies, failAt \in 0..1,
       t \in Targets, module \in Modules, flag \in BatchFlags, occupied \in BOOLEAN :
        /\ target = t
        /\ params = ParamsOf(<<row>>, module, flag)
        /\ endpoint = Endpoint(<<reply>>, failAt)
        /\ registry = FreshRegistry(occupied)

\* (d) descriptors under the keys args and decimals, every reply canned
InitPlural ==
    \E rows \in Sequences({WalletZero, BlockNumber}, MaxN), flag \in BatchFlags :
        /\ target = "https://rpc.example/eth"
        /\ params = ParamsOfPlural(rows, <<"jsonrpc">>, flag)
        /\ endpoint = Endpoint([k \in 1..Len(rows) |-> RpcResult(JString("0x1234"))], 0)
        /\ registry = FreshRegistry(FALSE)

\* the locals at the entry of ProbeJSONRPC
ProbeEntry ==
    /\ pc = "entry"
    /\ success = FALSE
    /\ rpc = ""
    /\ idx = 0
    /\ batch = <<>>
    /\ raw = <<>>
    /\ wire = <<>>
    /\ sets = <<>>
    /\ run = 1
    /\ first = [success |-> FALSE, series |-> {}]

\* a context that is never cancelled and an endpoint that answers
Undisturbed ==
    /\ ctx = "live"
    /\ silent = FALSE

\* one invocation, with no other beside it
Unpaired ==
    /\ begin = <<>>
    /\ turn = 1
    /\ saved = <<>>
    /\ solo = <<>>
    /\ mixed = FALSE

ProbeInit ==
    /\ InitShapes \/ InitTables \/ InitSingle \/ InitPlural
    /\ ProbeEntry
    /\ Undisturbed
    /\ Unpaired

\* (e) descriptors whose calls succeed when they are answered, an endpoint that
\* answers or stays silent, and a context the caller may cancel
InitCtx ==
    /\ \E rows \in Sequences({WalletZero, BlockNumber}, MaxN), flag \in BatchFlags :
           /\ target = "https://rpc.example/eth"
           /\ params = ParamsOf(rows, <<"jsonrpc">>, flag)
           /\ endpoint = Endpoint([k \in 1..Len(rows) |-> RpcResult(JString("0x1234"))], 0)
           /\ registry = FreshRegistry(FALSE)
    /\ ProbeEntry
    /\ ctx = "live"
    /\ silent \in BOOLEAN
    /\ Unpaired

\* the caller cancels the context, or its deadline expires
Cancel ==
    /\ ctx = "live"
    /\ pc \notin {"idle", "done", "panic"}
    /\ ctx' = "cancelled"
    /\ UNCHANGED silent
    /\ UNCHANGED <<sliceVars, probeVars, floatVars, pairVars, proberVars>>

(***************************************************************************)
(* Two invocations at once. ProbeJSONRPC keeps what it works on in its     *)
(* parameters and locals (jsonrpc.go:243-281: eth, the five columns, the   *)
(* GaugeVec made at :272, batch, result), and the file declares no         *)
(* package-level variable: an invocation is the record of these, and two   *)
(* goroutines take turns by the processor holding the record of one while  *)
(* the record of the other waits.                                          *)
(***************************************************************************)
\* the invocation the variables of ProbeJSONRPC hold
Current ==
    [target |-> target, params |-> params, endpoint |-> endpoint,
     registry |-> registry, pc |-> pc, success |-> success, rpc |-> rpc,
     idx |-> idx, batch |-> batch, raw |-> raw, wire |-> wire, sets |-> sets,
     run |-> run, first |-> first]

\* the variables of ProbeJSONRPC come to hold the invocation inv
Load(inv) ==
    /\ target' = inv.target
    /\ params' = inv.params
    /\ endpoint' = inv.endpoint
    /\ registry' = inv.registry
    /\ pc' = inv.pc
    /\ success' = inv.success
    /\ rpc' = inv.rpc
    /\ idx' = inv.idx
    /\ batch' = inv.batch
    /\ raw' = inv.raw
    /\ wire' = inv.wire
    /\ sets' = inv.sets
    /\ run' = inv.run
    /\ first' = inv.first

\* what an invocation returned, and what its registry holds
OutcomeOf(inv) == [success |-> inv.success, registry |-> inv.registry]

\* an invocation about to take its first step
Invocation(rows, flag, reply, failAt) ==
    [target |-> "https://rpc.example/eth",
     params |-> ParamsOf(rows, <<"jsonrpc">>, flag),
     endpoint |-> Endpoint([k \in 1..Len(rows) |-> reply], failAt),
     registry |-> FreshRegistry(FALSE),
     pc |-> "entry", success |-> FALSE, rpc |-> "", idx |-> 0, batch |-> <<>>,
     raw |-> <<>>, wire |-> <<>>, sets |-> <<>>, run |-> 1,
     first |-> [success |-> FALSE, series |-> {}]]

\* a batch of two, one call, two calls of which the endpoint refuses the second,
\* and the batch of two again at an endpoint that answers with another number
Invocations ==
    { Invocation(<<WalletZero, BlockNumber>>, <<>>, RpcResult(JString("0x1234")), 0),
      Invocation(<<BlockNumber>>, <<"true">>, RpcResult(JString("0x10")), 0),
      Invocation(<<BlockNumber, WalletZero>>, <<"true">>, RpcResult(JString("0x1234")), 2),
      Invocation(<<WalletZero, BlockNumber>>, <<>>, RpcResult(JString("0x10")), 0) }

\* (f) two invocations: the first is about to run alone
InitTwo ==
    /\ \E one \in Invocations, two \in Invocations :
           /\ begin = <<one, two>>
           /\ target = one.target
           /\ params = one.params
           /\ endpoint = one.endpoint
           /\ registry = one.registry
    /\ ProbeEntry
    /\ Undisturbed
    /\ turn = 1
    /\ saved = <<>>
    /\ solo = <<>>
    /\ mixed = FALSE

\* each of the two has been run alone
Together == Len(solo) = 2

\* an invocation run alone has returned: what it produced is noted, and the
\* second is run alone, or the two are started together
SoloReturn ==
    /\ ~Together
    /\ pc = "done"
    /\ solo' = Append(solo, OutcomeOf(Current))
    /\ IF solo = <<>>
       THEN /\ Load(begin[2])
            /\ turn' = 2
            /\ saved' = saved
       ELSE /\ Load(begin[1])
            /\ turn' = 1
            /\ saved' = begin[2]
    /\ UNCHANGED <<begin, mixed>>
    /\ UNCHANGED <<sliceVars, floatVars, outerVars, proberVars>>

\* a variant in which the GaugeVec is one package-level variable: the series
\* set by one invocation are in what the other registered
Switch_SharedVec ==
    /\ Together
    /\ saved.pc # "done"
    /\ Load([saved EXCEPT !.registry.series = registry.series])
    /\ saved' = Current
    /\ turn' = 3 - turn
    /\ mixed' = (mixed \/ ({pc, saved.pc} \cap {"entry", "done"} = {}))
    /\ UNCHANGED <<begin, solo>>
    /\ UNCHANGED <<sliceVars, floatVars, outerVars, proberVars>>

\* the scheduler takes the processor from one goroutine and gives it to the
\* other, which has not returned yet
Switch ==
    /\ Together
    /\ saved.pc # "done"
    /\ Load(saved)
    /\ saved' = Current
    /\ turn' = 3 - turn
    /\ mixed' = (mixed \/ ({pc, saved.pc} \cap {"entry", "done"} = {}))
    /\ UNCHANGED <<begin, solo>>
    /\ UNCHANGED <<sliceVars, floatVars, outerVars, proberVars>>

\* no invocation of ProbeJSONRPC
ProbeIdle ==
    /\ target = ""
    /\ params = [key \in Keys |-> <<>>]
    /\ endpoint = Endpoint(<<>>, 0)
    /\ registry = FreshRegistry(FALSE)
    /\ pc = "idle"
    /\ success = FALSE
    /\ rpc = ""
    /\ idx = 0
    /\ batch = <<>>
    /\ raw = <<>>
    /\ wire = <<>>
    /\ sets = <<>>
    /\ run = 1
    /\ first = [success |-> FALSE, series |-> {}]
    /\ Undisturbed
    /\ Unpaired

\* no invocation of stringsToSlice
SliceIdle ==
    /\ s = ""
    /\ parts = <<>>
    /\ result = <<>>
    /\ spc = "idle"

\* the inputs of the function: the cases of TestResultToFloat64WithDecimals,
\* the multiples k * 10^scale in decimal and in hexadecimal digits, two wide
\* integers, and texts that are no integers
MaxScale == 25
Scales == {0, 6, 18} \cup 22..MaxScale
Multipliers == {1, 3, 7, 12, 1000}

RECURSIVE Zeros(_)
Zeros(n) == IF n = 0 THEN "" ELSE "0" \o Zeros(n - 1)

\* the hexadecimal digits of x, from digit i (counted from 0 at the low end) down
RECURSIVE HexFrom(_, _)
HexFrom(x, i) ==
    IF i < 0 THEN ""
    ELSE Char(HexDigits, 1 + NatBit(x, 4 * i) + 2 * NatBit(x, 4 * i + 1)
                           + 4 * NatBit(x, 4 * i + 2) + 8 * NatBit(x, 4 * i + 3))
         \o HexFrom(x, i - 1)

HexOf(x) == IF x = <<>> THEN "0" ELSE HexFrom(x, (NatBitLen(x) - 1) \div 4)

TestCases == {<<"0x3635C9ADC5DEA00000", 18>>, <<"3b9aca00", 6>>, <<"0x0", 18>>}

MultipleInputs ==
    UNION {{<<Itoa(k) \o Zeros(sc), sc>>,
            <<"0x" \o HexOf(NatMul(NatOfInt(k), NatPow10(sc))), sc>>} :
           <<k, sc>> \in Multipliers \X Scales}

WideInputs == {<<"1" \o Zeros(77), 77>>, <<"0x8" \o Zeros(63), 0>>}

NoIntegers == {"", "<nil>", "\"5\"", "abc", "12abc", "0x", "0xzz", "1.5", " 7", "0X1f"}

NoIntegerInputs == NoIntegers \X {0, 6, MinPow10 - 1, MaxPow10 + 1}

FloatInputs == TestCases \cup MultipleInputs \cup WideInputs \cup NoIntegerInputs
                 \cup {<<"1000000000", 6>>}

FloatInit ==
    /\ \E input \in FloatInputs : fresult = input[1] /\ fdecimals = input[2]
    /\ resultInt = [neg |-> FALSE, abs |-> <<>>]
    /\ f = Zero(FALSE)
    /\ fpc = "call"

\* jsonrpc.go:76-81
FloatParse ==
    /\ fpc = "call"
    /\ resultInt' = ResultInt(fresult)
    /\ fpc' = "parsed"
    /\ UNCHANGED <<fresult, fdecimals, f>>
    /\ UNCHANGED notFloat

\* jsonrpc.go:83-84: panic(big.ErrNaN) unwinds the call, or the quotient is returned
FloatQuo ==
    /\ fpc = "parsed"
    /\ LET z == Quo(resultInt, Pow10(fdecimals))
       IN  IF z = NaNPanic
           THEN fpc' = "panic" /\ UNCHANGED f
           ELSE fpc' = "done" /\ f' = z
    /\ UNCHANGED <<fresult, fdecimals, resultInt>>
    /\ UNCHANGED notFloat

FloatNext == FloatParse \/ FloatQuo

FloatIdle ==
    /\ fresult = ""
    /\ fdecimals = 0
    /\ resultInt = [neg |-> FALSE, abs |-> <<>>]
    /\ f = Zero(FALSE)
    /\ fpc = "idle"

(***************************************************************************)
(* ProbeBTCRPC (btcrpc.go:28-82)                                           *)
(***************************************************************************)
\* strings.TrimLeft(str, cutset): str without the leading characters that are
\* in cutset
RECURSIVE TrimLeftCutset(_, _)
TrimLeftCutset(str, cutset) ==
    IF str # "" /\ Char(str, 1) \in Chars(cutset)
    THEN TrimLeftCutset(Tail(str), cutset) ELSE str

\* btcrpc.go:29-38: the local host, which url is a copy of
HostOf(t) ==
    IF HasPrefix(t, "http://") THEN TrimLeftCutset(t, "http://")
    ELSE IF HasPrefix(t, "https://") THEN TrimLeftCutset(t, "https://")
    ELSE t

\* cmd.Output(): the command fails (curl is missing, or exits with a status
\* other than 0), or it ends with status 0 having printed a text, which is a
\* JSON value or no JSON at all
CurlFails == [kind |-> "fails"]
CurlPrints(json) == [kind |-> "prints", json |-> json]
NoJSON == [t |-> "invalid"]
JList(elems) == [t |-> "array", elems |-> elems]

\* json.Unmarshal(output, &result) for result a map[string]interface{}: an
\* object fills the map, null leaves it nil, anything else is an error
UnmarshalMap(msg) ==
    IF msg.t = "object" THEN [ok |-> TRUE, fields |-> msg.fields]
    ELSE IF msg.t = "null" THEN [ok |-> TRUE, fields |-> <<>>]
    ELSE [ok |-> FALSE, fields |-> <<>>]

\* m[key].(map[string]interface{}) for a decoded map m
AsMap(fields, key) ==
    IF key \in DOMAIN fields /\ fields[key].t = "object"
    THEN [ok |-> TRUE, fields |-> fields[key].fields]
    ELSE [ok |-> FALSE, fields |-> <<>>]

\* m[key].(float64) for a decoded map m: encoding/json decodes every JSON
\* number into a float64
AsFloat64(fields, key) ==
    IF key \in DOMAIN fields /\ fields[key].t = "number"
    THEN [ok |-> TRUE, n |-> fields[key].n]
    ELSE [ok |-> FALSE, n |-> 0]

\* float64(n) for a whole number n >= 0 of the model
WholeFloat64(n) == IF n = 0 THEN Zero(FALSE) ELSE Float64OfInt(n)

BtcReturn(value) ==
    /\ bsuccess' = value
    /\ bpc' = "done"

\* btcrpc.go:29-44, and :81 for any other module
BtcEnter ==
    /\ bpc = "entry"
    /\ url' = HostOf(btarget)
    /\ IF bparams.module = "btc_chain_info"
       THEN bpc' = "register" /\ UNCHANGED bsuccess
       ELSE BtcReturn(TRUE)
    /\ UNCHANGED <<btarget, bparams, bregistry, output, blockNumber, blockHeightGauge>>
    /\ UNCHANGED notBtc

\* btcrpc.go:45-51
BtcRegister ==
    /\ bpc = "register"
    /\ IF bregistry.occupied
       THEN bpc' = "panic" /\ UNCHANGED bregistry     \* MustRegister: AlreadyRegisteredError
       ELSE bpc' = "curl" /\ bregistry' = [bregistry EXCEPT !.vec = TRUE]
    /\ UNCHANGED <<btarget, bparams, output, url, bsuccess, blockNumber, blockHeightGauge>>
    /\ UNCHANGED notBtc

\* btcrpc.go:53-60: the bare return leaves the named result false
BtcCurl ==
    /\ bpc = "curl"
    /\ IF output = CurlFails
       THEN BtcReturn(FALSE)
       ELSE bpc' = "parse" /\ UNCHANGED bsuccess
    /\ UNCHANGED <<btarget, bparams, bregistry, output, url, blockNumber, blockHeightGauge>>
    /\ UNCHANGED notBtc

\* btcrpc.go:62-81
BtcParse ==
    /\ bpc = "parse"
    /\ LET resultMap == UnmarshalMap(output.json)
           chainInfo == AsMap(resultMap.fields, "result")
           blocks == AsFloat64(chainInfo.fields, "blocks")
       IN  IF ~resultMap.ok
           THEN BtcReturn(FALSE) /\ UNCHANGED <<bregistry, blockHeightGauge>>
           ELSE /\ IF chainInfo.ok /\ blocks.ok
                   THEN blockHeightGauge' =
                          SetGauge(blockHeightGauge, <<"network", url>>, WholeFloat64(blocks.n))
                   ELSE UNCHANGED blockHeightGauge
                /\ bregistry' = [bregistry EXCEPT
                       !.series = SetGauge(@, <<btarget>>, WholeFloat64(blockNumber))]
                /\ BtcReturn(TRUE)
    /\ UNCHANGED <<btarget, bparams, output, url, blockNumber>>
    /\ UNCHANGED notBtc

BtcNext == BtcEnter \/ BtcRegister \/ BtcCurl \/ BtcParse

\* what the endpoint may answer to getblockchaininfo, and other texts
ChainInfo(height) ==
    JObject([result |-> JObject([chain |-> JString("main"), blocks |-> JNumber(height)]),
             error |-> JNull, id |-> JString("curltext")])

Outputs ==
    { CurlFails,
      CurlPrints(NoJSON),
      CurlPrints(JList(<<>>)),
      CurlPrints(JNull),
      CurlPrints(ChainInfo(7)),
      CurlPrints(ChainInfo(812345)),
      CurlPrints(JObject([result |-> JNull, error |-> JObject([code |-> JNumber(28)]),
                          id |-> JString("curltext")])),
      CurlPrints(JObject([result |-> JObject([chain |-> JString("main")])])),
      CurlPrints(JObject([result |-> JObject([blocks |-> JString("7")])])),
      CurlPrints(JObject([error |-> JNull])) }

BtcTargets == {"http://node:8332", "https://node:8332", "127.0.0.1:8332"}

BtcModules == {"btc_chain_info", "", "chain_info"}

\* the values blockNumber may have when ProbeBTCRPC is entered
BlockNumbers == {0, 7}

BtcInit ==
    /\ btarget \in BtcTargets
    /\ \E module \in BtcModules :
           bparams = [module |-> module, user |-> "rpcuser", pass |-> "rpcpass"]
    /\ \E occupied \in BOOLEAN : bregistry = FreshRegistry(occupied)
    /\ output \in Outputs
    /\ url = ""
    /\ bsuccess = FALSE
    /\ bpc = "entry"
    /\ blockNumber \in BlockNumbers
    /\ blockHeightGauge = {}

\* no invocation of ProbeBTCRPC
BtcIdle ==
    /\ btarget = ""
    /\ bparams = [module |-> "", user |-> "", pass |-> ""]
    /\ bregistry = FreshRegistry(FALSE)
    /\ output = CurlFails
    /\ url = ""
    /\ bsuccess = FALSE
    /\ bpc = "idle"
    /\ blockNumber = 0
    /\ blockHeightGauge = {}

(***************************************************************************)
(* ProbeETHRPC in the mode contract_call. The function is defined outside  *)
(* the files at hand: its steps are modelled from the specification        *)
(* (sections 4.5 and 7), the decoding of the ABI fragment from the types   *)
(* of part_002, and its inputs from TestProbeETHRPC (ethrpc_test.go:69-84).*)
(***************************************************************************)
\* the ABI fragments of the call strings, as texts
BalanceOfABI ==
    "[{\"inputs\":[{\"type\":\"address\"}],\"name\":\"balanceOf\",\"outputs\":[{\"type\":\"uint256\"}],\"type\":\"function\"}]"
OwnerABI ==
    "[{\"inputs\":[],\"name\":\"owner\",\"outputs\":[{\"type\":\"address\"}],\"type\":\"function\"}]"
TotalSupplyABI ==
    "[{\"inputs\":[],\"name\":\"totalSupply\",\"outputs\":[{\"type\":\"uint256\"}],\"type\":\"function\"}]"
NoOutputsABI ==
    "[{\"inputs\":[],\"name\":\"totalSupply\",\"outputs\":[],\"type\":\"function\"}]"
TouchABI ==
    "[{\"inputs\":[{\"type\":\"address\"}],\"name\":\"touch\",\"outputs\":[],\"type\":\"function\"}]"
CutShortABI == "[{\"inputs\":[],\"name\":"

ABIParam(type) == JObject([type |-> JString(type)])
ABIFunction(name, inputs, outputs) ==
    JObject([inputs |-> JList(inputs), name |-> JString(name),
             outputs |-> JList(outputs), type |-> JString("function")])

\* the JSON value a text of the model is, NoJSON when it is none
ParseJSON(text) ==
    CASE text = BalanceOfABI ->
             JList(<<ABIFunction("balanceOf", <<ABIParam("address")>>, <<ABIParam("uint256")>>)>>)
      [] text = OwnerABI ->
             JList(<<ABIFunction("owner", <<>>, <<ABIParam("address")>>)>>)
      [] text = TotalSupplyABI ->
             JList(<<ABIFunction("totalSupply", <<>>, <<ABIParam("uint256")>>)>>)
      [] text = NoOutputsABI ->
             JList(<<ABIFunction("totalSupply", <<>>, <<>>)>>)
      [] text = TouchABI ->
             JList(<<ABIFunction("touch", <<ABIParam("address")>>, <<>>)>>)
      [] OTHER -> NoJSON

\* json.Unmarshal into a string field of a struct: an absent key or null
\* leaves "", a string is taken, anything else is an error
StringField(fields, key) ==
    IF key \notin DOMAIN fields \/ fields[key].t = "null" THEN [ok |-> TRUE, val |-> ""]
    ELSE IF fields[key].t = "string" THEN [ok |-> TRUE, val |-> fields[key].v]
    ELSE [ok |-> FALSE, val |-> ""]

\* json.Unmarshal into an ABIInput or ABIOutput (part_002:3-11)
UnmarshalABIParam(json) ==
    IF json.t # "object" THEN [ok |-> FALSE, Name |-> "", Type |-> ""]
    ELSE [ok   |-> StringField(json.fields, "name").ok /\ StringField(json.fields, "type").ok,
          Name |-> StringField(json.fields, "name").val,
          Type |-> StringField(json.fields, "type").val]

\* json.Unmarshal into a field of type []ABIInput or []ABIOutput: an absent key
\* or null leaves nil, an array gives one element for each of its own, of
\* whatever length, anything else is an error
ParamsField(fields, key) ==
    IF key \notin DOMAIN fields \/ fields[key].t = "null" THEN [ok |-> TRUE, val |-> <<>>]
    ELSE IF fields[key].t # "array" THEN [ok |-> FALSE, val |-> <<>>]
    ELSE LET elems == fields[key].elems IN
         [ok  |-> \A k \in 1..Len(elems) : UnmarshalABIParam(elems[k]).ok,
          val |-> [k \in 1..Len(elems) |->
                     [Name |-> UnmarshalABIParam(elems[k]).Name,
                      Type |-> UnmarshalABIParam(elems[k]).Type]]]

ABIMethod(name, type, inputs, outputs) ==
    [Name |-> name, Type |-> type, Inputs |-> inputs, Outputs |-> outputs]

\* a variant that takes a function without outputs for an incomplete fragment
UnmarshalABI_OutputsRequired(json) ==
    IF json.t # "array" THEN [ok |-> FALSE, methods |-> <<>>]
    ELSE [ok |-> \A k \in 1..Len(json.elems) :
                    /\ json.elems[k].t = "object"
                    /\ StringField(json.elems[k].fields, "name").ok
                    /\ StringField(json.elems[k].fields, "type").ok
                    /\ ParamsField(json.elems[k].fields, "inputs").ok
                    /\ ParamsField(json.elems[k].fields, "outputs").ok
                    /\ ParamsField(json.elems[k].fields, "outputs").val # <<>>,
          methods |-> [k \in 1..Len(json.elems) |->
                         IF json.elems[k].t # "object" THEN ABIMethod("", "", <<>>, <<>>)
                         ELSE ABIMethod(StringField(json.elems[k].fields, "name").val,
                                        StringField(json.elems[k].fields, "type").val,
                                        ParamsField(json.elems[k].fields, "inputs").val,
                                        ParamsField(json.elems[k].fields, "outputs").val)]]

\* json.Unmarshal into a []ABIMethod (part_002:14-19): every element of the
\* array is an object whose name and type are strings and whose inputs and
\* outputs are lists, each of which may be absent or empty
UnmarshalABI(json) ==
    IF json.t # "array" THEN [ok |-> FALSE, methods |-> <<>>]
    ELSE [ok |-> \A k \in 1..Len(json.elems) :
                    /\ json.elems[k].t = "object"
                    /\ StringField(json.elems[k].fields, "name").ok
                    /\ StringField(json.elems[k].fields, "type").ok
                    /\ ParamsField(json.elems[k].fields, "inputs").ok
                    /\ ParamsField(json.elems[k].fields, "outputs").ok,
          methods |-> [k \in 1..Len(json.elems) |->
                         IF json.elems[k].t # "object" THEN ABIMethod("", "", <<>>, <<>>)
                         ELSE ABIMethod(StringField(json.elems[k].fields, "name").val,
                                        StringField(json.elems[k].fields, "type").val,
                                        ParamsField(json.elems[k].fields, "inputs").val,
                                        ParamsField(json.elems[k].fields, "outputs").val)]]

NoCall == [label |-> "", address |-> "", abi |-> ABIMethod("", "", <<>>, <<>>), args |-> <<>>]

\* a call string label|address|abiJSON[|arg...] taken apart: the fragment has
\* to decode into at least one function, and the arguments that follow it
\* have to be as many as the inputs of the function
ParseCall(str) ==
    LET fields == Split(str, "|") IN
    IF Len(fields) < 3 THEN [ok |-> FALSE, call |-> NoCall]
    ELSE LET abi == UnmarshalABI(ParseJSON(fields[3])) IN
         IF ~abi.ok \/ abi.methods = <<>> THEN [ok |-> FALSE, call |-> NoCall]
         ELSE IF Len(fields) - 3 # Len(abi.methods[1].Inputs)
         THEN [ok |-> FALSE, call |-> NoCall]
         ELSE [ok |-> TRUE,
               call |-> [label |-> fields[1], address |-> fields[2],
                         abi |-> abi.methods[1],
                         args |-> SubSeq(fields, 4, Len(fields))]]

\* the invocation of a contract ends with the bytes it returned, as a sequence
\* of words of 32 bytes, or with an error
Reverted == [kind |-> "error"]
Bytes(words) == [kind |-> "bytes", words |-> words]

\* the value of the gauge for the bytes returned: 1 for a function without
\* outputs whatever the bytes are, the first word for a number, 1 for an
\* address that is there
DecodeOutputs(outputs, words) ==
    IF outputs = <<>> THEN [ok |-> TRUE, value |-> WholeFloat64(1)]
    ELSE IF Len(words) < Len(outputs) THEN [ok |-> FALSE, value |-> Zero(FALSE)]
    ELSE IF outputs[1].Type = "address" THEN [ok |-> TRUE, value |-> WholeFloat64(1)]
    ELSE [ok |-> TRUE, value |-> WholeFloat64(words[1])]

\* the labels target, label, method of probe_ethrpc_contract_call
CallLabels == <<etarget, emethod.label, emethod.abi.Name>>

EthReturn(value) ==
    /\ esuccess' = value
    /\ epc' = "done"

\* the gauge vector is registered, and the walk through the call strings begins
EthEnter ==
    /\ epc = "entry"
    /\ eregistry' = [eregistry EXCEPT !.vec = TRUE]
    /\ eidx' = 1
    /\ epc' = "parse"
    /\ UNCHANGED <<etarget, calls, replies, esuccess, emethod, ebytes, ewire, esets>>
    /\ UNCHANGED notEth

\* the next call string is taken apart, or there is none left
EthParse ==
    /\ epc = "parse"
    /\ IF eidx > Len(calls)
       THEN EthReturn(TRUE) /\ UNCHANGED emethod
       ELSE \E parsed \in {ParseCall(calls[eidx])} :
                IF ~parsed.ok
                THEN EthReturn(FALSE) /\ UNCHANGED emethod
                ELSE /\ emethod' = parsed.call
                     /\ epc' = "invoke"
                     /\ UNCHANGED esuccess
    /\ UNCHANGED <<etarget, calls, replies, eregistry, eidx, ebytes, ewire, esets>>
    /\ UNCHANGED notEth

\* the contract is invoked
EthInvoke ==
    /\ epc = "invoke"
    /\ ewire' = Append(ewire, [to |-> emethod.address, method |-> emethod.abi.Name,
                               args |-> emethod.args])
    /\ IF replies[eidx] = Reverted
       THEN EthReturn(FALSE) /\ UNCHANGED ebytes
       ELSE /\ ebytes' = replies[eidx].words
            /\ epc' = "decode"
            /\ UNCHANGED esuccess
    /\ UNCHANGED <<etarget, calls, replies, eregistry, eidx, emethod, esets>>
    /\ UNCHANGED notEth

\* the bytes returned are decoded and the gauge of the call is set
EthDecode ==
    /\ epc = "decode"
    /\ \E decoded \in {DecodeOutputs(emethod.abi.Outputs, ebytes)} :
           IF ~decoded.ok
           THEN EthReturn(FALSE) /\ UNCHANGED <<eregistry, esets, eidx>>
           ELSE /\ eregistry' = [eregistry EXCEPT
                                    !.series = SetGauge(@, CallLabels, decoded.value)]
                /\ esets' = Append(esets, [k |-> eidx, labels |-> CallLabels,
                                           value |-> decoded.value])
                /\ eidx' = eidx + 1
                /\ epc' = "parse"
                /\ UNCHANGED esuccess
    /\ UNCHANGED <<etarget, calls, replies, emethod, ebytes, ewire>>
    /\ UNCHANGED notEth

EthNext == EthEnter \/ EthParse \/ EthInvoke \/ EthDecode

\* the call strings of the case "ETH Contract Call balanceOf", with short
\* addresses, one for a function with an input and no output, one whose
\* fragment is cut short, and one without a fragment
CallStrings ==
    { "Token1|0x3c|" \o BalanceOfABI \o "|0x20",
      "Token1|0x3c|" \o OwnerABI,
      "Token1|0x3c|" \o TotalSupplyABI,
      "Token1|0x3c|" \o NoOutputsABI,
      "Token2|0xE6|" \o TouchABI \o "|0x20",
      "Token1|0x3c|" \o CutShortABI,
      "Token1|0x3c" }

ContractReplies == { Bytes(<<>>), Bytes(<<5>>), Bytes(<<5, 0>>), Reverted }

EthInit ==
    /\ etarget = "https://rpc.example/eth"
    /\ \E list \in Sequences(CallStrings, MaxN) :
           /\ calls = list
           /\ replies \in [1..Len(list) -> ContractReplies]
    /\ eregistry = FreshRegistry(FALSE)
    /\ epc = "entry"
    /\ esuccess = FALSE
    /\ eidx = 0
    /\ emethod = NoCall
    /\ ebytes = <<>>
    /\ ewire = <<>>
    /\ esets = <<>>

\* no invocation of ProbeETHRPC
EthIdle ==
    /\ etarget = ""
    /\ calls = <<>>
    /\ replies = <<>>
    /\ eregistry = FreshRegistry(FALSE)
    /\ epc = "idle"
    /\ esuccess = FALSE
    /\ eidx = 0
    /\ emethod = NoCall
    /\ ebytes = <<>>
    /\ ewire = <<>>
    /\ esets = <<>>

\* no invocation of a prober other than ProbeJSONRPC
ProbersIdle == BtcIdle /\ EthIdle

Init == ProbeInit /\ SliceIdle /\ FloatIdle /\ ProbersIdle

Next == ProbeNext

Spec == Init /\ [][Next]_vars

InitStrings == SliceInit /\ ProbeIdle /\ FloatIdle /\ ProbersIdle

SpecStrings == InitStrings /\ [][SliceNext]_vars

InitFloat == FloatInit /\ SliceIdle /\ ProbeIdle /\ ProbersIdle

SpecFloat == InitFloat /\ [][FloatNext]_vars

\* one invocation under a context, which the caller cancels when it likes. The
\* goroutine that runs ProbeJSONRPC is scheduled: whenever it can dial, check,
\* register, send a call or read a reply that has come, it does.
InitCancel == InitCtx /\ SliceIdle /\ FloatIdle /\ ProbersIdle

NextCancel == ProbeNext \/ Cancel

Calling ==
    \/ Dial \/ CheckColumns \/ Register
    \/ SingleCall \/ SingleReply
    \/ BatchBuild \/ BatchSubmit \/ BatchReply

SpecCancel == InitCancel /\ [][NextCancel]_vars /\ WF_vars(Calling)

\* two invocations, each run alone and then the two together, step by step in
\* every order
InitPair == InitTwo /\ SliceIdle /\ FloatIdle /\ ProbersIdle

NextPair == Calling \/ SingleExtract \/ BatchExtract \/ SoloReturn \/ Switch

SpecPair == InitPair /\ [][NextPair]_vars

\* one invocation of ProbeBTCRPC
InitBtc == BtcInit /\ EthIdle /\ SliceIdle /\ ProbeIdle /\ FloatIdle

SpecBtc == InitBtc /\ [][BtcNext]_vars

\* one invocation of ProbeETHRPC in the mode contract_call
InitEth == EthInit /\ BtcIdle /\ SliceIdle /\ ProbeIdle /\ FloatIdle

SpecEth == InitEth /\ [][EthNext]_vars


(***************************************************************************)
(* Vocabulary of the claims about stringsToSlice, stated on the text of    *)
(* the argument rather than through Split, TrimSpace and strconv.          *)
(***************************************************************************)
\* the positions that delimit the comma-separated parts of str
Delimiters(str) == {0, Len(str) + 1} \cup { i \in 1..Len(str) : Char(str, i) = "," }

PartCount(str) == Cardinality(Delimiters(str)) - 1

\* the k-th smallest delimiter
Delimiter(str, k) ==
    CHOOSE d \in Delimiters(str) : Cardinality({ e \in Delimiters(str) : e < d }) = k - 1

\* the k-th comma-separated part, surrounding whitespace removed
TrimmedPart(str, k) ==
    LET lo    == Delimiter(str, k) + 1
        hi    == Delimiter(str, k + 1) - 1
        solid == { i \in lo..hi : ~IsSpace(Char(str, i)) }
    IN  IF solid = {} THEN ""
        ELSE SubSeq(str, CHOOSE i \in solid : \A j \in solid : i <= j,
                         CHOOSE i \in solid : \A j \in solid : j <= i)

\* p is a base-10 signed integer: an optional sign and one or more digits
IsBase10Integer(p) ==
    \E body \in {p, IF p = "" THEN p ELSE Tail(p)} :
        /\ body # ""
        /\ body = p \/ Char(p, 1) \in {"+", "-"}
        /\ \A i \in 1..Len(body) : Char(body, i) \in Chars(DecDigits)

IsNegative(p) == Char(p, 1) = "-"

\* the digits of a base-10 integer from its first non-zero digit ("0" for zero)
Magnitude(p) ==
    LET nonzero == { i \in 1..Len(p) : Char(p, i) \in Chars(DecDigits) \ {"0"} } IN
    IF nonzero = {} THEN "0"
    ELSE SubSeq(p, CHOOSE i \in nonzero : \A j \in nonzero : i <= j, Len(p))

IntegerOf(p) == Int64(IsNegative(p) /\ Magnitude(p) # "0", Magnitude(p))

FitsInt64(p) ==
    NumeralLeq(Magnitude(p), IF IsNegative(p) THEN MinInt64Numeral ELSE MaxInt64Numeral)

\* C10 as the spec states it: integer if base-10 signed integer, boolean if the
\* literal true or false, the trimmed string otherwise
SpecElement(p) ==
    IF IsBase10Integer(p) THEN IntegerOf(p)
    ELSE IF p \in {"true", "false"} THEN Bool(p = "true")
    ELSE Str(p)

\* C10 as the code has it: integer if it fits 64 bits, boolean for every literal
\* strconv.ParseBool accepts
CodeElement(p) ==
    IF IsBase10Integer(p) /\ FitsInt64(p) THEN IntegerOf(p)
    ELSE IF p \in {"1", "t", "T", "TRUE", "true", "True"} THEN Bool(TRUE)
    ELSE IF p \in {"0", "f", "F", "FALSE", "false", "False"} THEN Bool(FALSE)
    ELSE Str(p)

(***************************************************************************)
(* Vocabulary of the claims about ProbeJSONRPC, stated on the arguments of *)
(* the invocation (target, params, endpoint) and on what it did (wire,     *)
(* sets, registry, success).                                               *)
(***************************************************************************)
Returned == pc = "done"

\* the five columns all have the same length / one of them is absent
SameLengths == Cardinality({ Len(params[c]) : c \in Columns }) = 1
SomeColumnAbsent == \E c \in Columns : params[c] = <<>>

\* the request is one for the jsonrpc module with a well-formed descriptor table
IsJsonrpc == params["module"] # <<>> /\ Head(params["module"]) = "jsonrpc"
WellFormed == SameLengths /\ ~SomeColumnAbsent
N == Len(params["method"])

Unbatched == params["disableBatch"] # <<>> /\ Head(params["disableBatch"]) = "true"

\* str without its leading and trailing whitespace
Trimmed(str) ==
    LET solid == { j \in 1..Len(str) : ~IsSpace(Char(str, j)) } IN
    IF solid = {} THEN ""
    ELSE SubSeq(str, CHOOSE j \in solid : \A l \in solid : j <= l,
                     CHOOSE j \in solid : \A l \in solid : l <= j)

Blank(str) == \A j \in 1..Len(str) : IsSpace(Char(str, j))

Path(k) == params["resultJMESPath"][k]
Reply(k) == endpoint.reply[k]

\* the argument text of descriptor k does not parse
ArgFails(k) == ~parseJSONRPCParams(params["arg"][k]).ok
AllArgsParse == \A k \in 1..N : ~ArgFails(k)

\* the request that carries descriptor k: the k-th call, or the one batch
RequestOf(k) == IF Unbatched THEN k ELSE 1

\* the call of descriptor k fails: its request fails as a whole, or the
\* endpoint answers it with an error
CallFails(k) == endpoint.failAt = RequestOf(k) \/ Reply(k).kind = "error"

\* the result of descriptor k cannot be decoded: no expression, and the result
\* is neither a JSON string nor null
DecodeFails(k) ==
    /\ Reply(k).kind = "result"
    /\ Blank(Path(k))
    /\ Reply(k).json.t \notin {"string", "null"}

\* the expression of descriptor k cannot be evaluated
ExtractFails(k) ==
    /\ Reply(k).kind = "result"
    /\ ~Blank(Path(k))
    /\ ~IsIdentifier(Trimmed(Path(k)))

DescriptorFails(k) == ArgFails(k) \/ CallFails(k) \/ DecodeFails(k) \/ ExtractFails(k)

\* the first descriptor that fails, N + 1 when none does
FirstFailure ==
    IF \E k \in 1..N : DescriptorFails(k)
    THEN CHOOSE k \in 1..N : DescriptorFails(k) /\ \A j \in 1..(k - 1) : ~DescriptorFails(j)
    ELSE N + 1

\* the expression of descriptor k names a field its result, an object, lacks
AbsentField(k) ==
    /\ Reply(k).kind = "result"
    /\ Reply(k).json.t = "object"
    /\ IsIdentifier(Trimmed(Path(k)))
    /\ Trimmed(Path(k)) \notin DOMAIN Reply(k).json.fields

\* the label values and the value the gauge of descriptor k is to carry
ExpectedRpc ==
    IF HasPrefix(target, "http://") \/ HasPrefix(target, "https://")
    THEN target ELSE "http://" \o target

ExpectedLabels(k) ==
    <<ExpectedRpc, params["method"][k], Trimmed(params["arg"][k]), params["tag"][k]>>

ExpectedText(k) ==
    IF Blank(Path(k))
    THEN (IF Reply(k).json.t = "string" THEN Reply(k).json.v ELSE "")
    ELSE Sprint(Search(Path(k), Reply(k).json).val)

ExpectedValue(k) ==
    resultToFloat64WithDecimals(ExpectedText(k), DecimalsInt(params["decimal"][k]))

\* the descriptors whose gauge was set, in the order they were set
SetOrder == [n \in 1..Len(sets) |-> sets[n].k]

\* the series that the Set calls made so far leave in a GaugeVec
SeriesOfSets ==
    { [labels |-> sets[n].labels, value |-> sets[n].value] :
        n \in { m \in 1..Len(sets) :
                  \A l \in (m + 1)..Len(sets) : sets[l].labels # sets[m].labels } }

\* the endpoint returns the same result for every call, and no request fails
Canned ==
    /\ endpoint.failAt = 0
    /\ \A j, k \in DOMAIN endpoint.reply :
          endpoint.reply[j] = endpoint.reply[k] /\ endpoint.reply[k].kind = "result"

C3_ModesAgree ==
    (run = 2 /\ Returned /\ IsJsonrpc /\ WellFormed /\ Canned) =>
        /\ first.success = success
        /\ first.series = registry.series

\* C4: in both modes, when the expression of a descriptor names a field that
\* the decoded result of its call lacks, ProbeJSONRPC returns false and never
\* sets the gauge of that descriptor.
C4_AbsentFieldFails ==
    (IsJsonrpc /\ WellFormed) =>
        \A k \in 1..N :
            AbsentField(k) =>
                /\ Returned => ~success
                /\ \A n \in 1..Len(sets) : sets[n].k # k

\* C5: without batching the calls are sent one at a time in index order, and
\* when descriptor k is the first to fail ProbeJSONRPC returns false, no call
\* was sent for a descriptor after k, the gauges were set for descriptors
\* 1..k-1 and no other, and the registry holds what those Set calls left.
C5_UnbatchedFailFast ==
    (IsJsonrpc /\ WellFormed /\ Unbatched) =>
        /\ \A n \in 1..Len(wire) :
              wire[n] = [kind |-> "call", method |-> params["method"][n],
                         args |-> parseJSONRPCParams(params["arg"][n]).args]
        /\ Len(wire) \in {Len(sets), Len(sets) + 1}
        /\ SetOrder = [n \in 1..Len(sets) |-> n]
        /\ Len(sets) < FirstFailure
        /\ Len(wire) <= FirstFailure
        /\ registry.series = SeriesOfSets
        /\ (Returned /\ FirstFailure <= N) => ~success
        /\ (Returned /\ registry.vec /\ FirstFailure <= N) =>
              /\ Len(sets) = FirstFailure - 1
              /\ Len(wire) = IF ArgFails(FirstFailure)
                             THEN FirstFailure - 1 ELSE FirstFailure

\* C5 witness: the probe has returned false because the last of its MaxN
\* descriptors failed after its call was sent: the gauges of the descriptors
\* before it are in the registry, and none was set for it.
C5_Witness ==
    /\ Returned /\ IsJsonrpc /\ WellFormed /\ Unbatched
    /\ N = MaxN
    /\ FirstFailure = N
    /\ ~ArgFails(FirstFailure)
    /\ ~success
    /\ Len(wire) = N
    /\ Len(sets) = N - 1
    /\ registry.series # {}

\* C6: with batching, once every argument text has parsed exactly one batch is
\* sent, holding the (method, args) of the N descriptors in order, and no single
\* call; when the batch fails as a whole ProbeJSONRPC returns false with no
\* gauge set; when element k is the first whose decoding or extraction fails it
\* returns false with the gauges of elements 1..k-1 set and no element after k
\* processed.
C6_BatchedFailFast ==
    (IsJsonrpc /\ WellFormed /\ ~Unbatched) =>
        /\ Len(wire) <= 1
        /\ \A n \in 1..Len(wire) :
              wire[n] = [kind |-> "batch",
                         elems |-> [k \in 1..N |->
                                      [Method |-> params["method"][k],
                                       Args |-> parseJSONRPCParams(params["arg"][k]).args]]]
        /\ (Returned /\ AllArgsParse /\ ~registry.occupied /\ ~DialFails(ExpectedRpc)) =>
              Len(wire) = 1
        /\ ~AllArgsParse => wire = <<>> /\ sets = <<>>
        /\ (Returned /\ wire # <<>> /\ endpoint.failAt = 1) =>
              ~success /\ sets = <<>> /\ registry.series = {}
        /\ SetOrder = [n \in 1..Len(sets) |-> n]
        /\ Len(sets) < FirstFailure
        /\ (Returned /\ FirstFailure <= N) => ~success
        /\ (Returned /\ wire # <<>> /\ endpoint.failAt # 1 /\ FirstFailure <= N) =>
              Len(sets) = FirstFailure - 1

\* C6 witness: a batch of the N descriptors was sent and answered, and an
\* element before the last was the first to fail: no later gauge was set.
C6_Witness ==
    /\ Returned /\ IsJsonrpc /\ WellFormed /\ ~Unbatched
    /\ N = MaxN
    /\ Len(wire) = 1
    /\ endpoint.failAt = 0
    /\ FirstFailure = N - 1
    /\ \A k \in FirstFailure + 1..N : ~DescriptorFails(k)
    /\ Len(sets) = FirstFailure - 1
    /\ ~success

\* C7: whenever ProbeJSONRPC returns true for a jsonrpc request, the gauge of
\* every one of the N descriptors was set in this invocation, once and in
\* order, and for no descriptor did the argument parse, the call, the decoding
\* or the extraction fail.
C7_TrueMeansAllSet ==
    (Returned /\ success /\ IsJsonrpc) =>
        /\ WellFormed
        /\ SetOrder = [k \in 1..N |-> k]
        /\ \A k \in 1..N : ~DescriptorFails(k)
        /\ registry.vec

\* C7 witness: a probe of MaxN descriptors has returned true.
C7_Witness ==
    /\ Returned /\ success /\ IsJsonrpc
    /\ N = MaxN
    /\ Len(sets) = MaxN

\* C8: for the target https://rpc.example/eth and the single descriptor
\* (eth_blockNumber, "", 0, BlockNumber, "") of module jsonrpc, against an
\* endpoint whose result is the JSON string "0x1234", ProbeJSONRPC returns true
\* and the registry holds exactly one probe_jsonrpc series, with those labels
\* and the value 4660.
C8_BlockNumberScenario ==
    ( /\ Returned
      /\ target = "https://rpc.example/eth"
      /\ IsJsonrpc
      /\ \A c \in Columns : params[c] = <<BlockNumber[c]>>
      /\ endpoint.failAt = 0
      /\ endpoint.reply[1] = RpcResult(JString("0x1234"))
      /\ ~registry.occupied ) =>
        /\ success
        /\ registry.vec
        /\ registry.series =
              {[labels |-> <<"https://rpc.example/eth", "eth_blockNumber", "", "BlockNumber">>,
                value |-> Float64OfInt(4660)]}

\* C8 witness: the scenario has run, with batching (no disableBatch key).
C8_Witness ==
    /\ Returned
    /\ target = "https://rpc.example/eth"
    /\ IsJsonrpc
    /\ \A c \in Columns : params[c] = <<BlockNumber[c]>>
    /\ params["disableBatch"] = <<>>
    /\ endpoint.failAt = 0
    /\ endpoint.reply[1] = RpcResult(JString("0x1234"))
    /\ success
    /\ Cardinality(registry.series) = 1

\* C9: every gauge Set of a jsonrpc probe is made for a descriptor index k with
\* the labels rpc = the target (with http:// prepended when it has no http or
\* https scheme), method = method[k], params = arg[k] trimmed, tag = tag[k] and
\* with the value of the result of call k scaled by decimal[k]; the registry
\* holds what those Set calls left, and a successful probe made one per index.
C9_LabelsAligned ==
    /\ \A n \in 1..Len(sets) :
          /\ sets[n].k \in 1..N
          /\ sets[n].labels = ExpectedLabels(sets[n].k)
          /\ sets[n].value = ExpectedValue(sets[n].k)
    /\ registry.series = SeriesOfSets
    /\ (Returned /\ success /\ IsJsonrpc) => SetOrder = [k \in 1..N |-> k]

\* C9 witness: a successful probe of a target without scheme, with two
\* descriptors of different labels, one of whose argument text has whitespace
\* around it.
C9_Witness ==
    /\ Returned /\ success /\ IsJsonrpc
    /\ ~HasPrefix(target, "http")
    /\ N >= 2
    /\ \E k \in 1..N : params["arg"][k] # Trimmed(params["arg"][k])
    /\ Cardinality(registry.series) = N

\* C10 (original statement): for every non-empty input stringsToSlice returns one
\* element per comma-separated part, in order: the trimmed part as an integer if
\* it is a base-10 signed integer, else as a boolean if it is the literal true or
\* false, else as the trimmed string unchanged.
C10_AsStated ==
    (spc = "done" /\ s # "") =>
        /\ Len(result) = PartCount(s)
        /\ \A k \in 1..Len(result) : result[k] = SpecElement(TrimmedPart(s, k))

\* C10 (amended): for every non-empty input stringsToSlice returns one element per
\* comma-separated part, in order: the trimmed part as an integer if it is a
\* base-10 signed integer that fits in 64 bits, else as a boolean if it is one of
\* the literals strconv.ParseBool accepts (1, t, T, TRUE, true, True, 0, f, F,
\* FALSE, false, False), else as the trimmed string unchanged; the two examples of
\* the spec come out as it says.
C10_PartsClassified ==
    /\ (spc = "done" /\ s # "") =>
          /\ Len(result) = PartCount(s)
          /\ \A k \in 1..Len(result) : result[k] = CodeElement(TrimmedPart(s, k))
          /\ result = stringsToSlice(s)
    /\ (spc = "done" /\ s = "42,true,hello,0xabc") =>
          result = <<Int64(FALSE, "42"), Bool(TRUE), Str("hello"), Str("0xabc")>>
    /\ (spc = "done" /\ s = " 10 , true , hello ") =>
          result = <<Int64(FALSE, "10"), Bool(TRUE), Str("hello")>>

\* C10 witness: the mixed input of the spec has been converted.
C10_Witness ==
    /\ spc = "done"
    /\ s = "42,true,hello,0xabc"
    /\ Len(result) = 4
    /\ result[1] = Int64(FALSE, "42")

\* a single part that is empty once trimmed: no comma, nothing but whitespace
SingleEmptyPart(str) ==
    /\ str # ""
    /\ \A i \in 1..Len(str) : Char(str, i) \in {" ", "\t", "\n", "\r"}

C12_EmptyGivesOneEmptyString ==
    (spc = "done" /\ s = "") => result = <<Str("")>>



(***************************************************************************)
(* Vocabulary of the claims about resultToFloat64WithDecimals, stated on   *)
(* the text of the argument and on the exact quotient.                     *)
(***************************************************************************)
AllDigits(str, digits) ==
    /\ str # ""
    /\ \A i \in 1..Len(str) : Index(digits, Char(str, i)) # 0

\* "0x" followed by hexadecimal digits, and a string of decimal digits
IsHexNumeral(str) ==
    /\ HasPrefix(str, "0x")
    /\ \/ AllDigits(TrimPrefix(str, "0x"), HexDigits)
       \/ AllDigits(TrimPrefix(str, "0x"), HexUpper)
       \/ AllDigits(TrimPrefix(str, "0x"), HexDigits \o "ABCDEF")
IsDecNumeral(str) == AllDigits(str, DecDigits)

\* a base-10 integer: decimal digits behind an optional sign
IsDecInteger(str) ==
    \/ IsDecNumeral(str)
    \/ /\ str # ""
       /\ Char(str, 1) \in {"+", "-"}
       /\ IsDecNumeral(Tail(str))

\* the non-negative integer a numeral denotes
NumeralNat(str) ==
    IF IsHexNumeral(str)
    THEN ScanWords(TrimPrefix(str, "0x"), 16, 1, Len(str) - 2, <<>>)
    ELSE ScanWords(str, 10, 1, Len(str), <<>>)

\* the float64 that holds the non-negative integer x, or is nearest to it
ExactFloat(x) == IF x = <<>> THEN Zero(FALSE) ELSE ToFloat64(FALSE, x, 0, 0)

FloatEnded == fpc \in {"done", "panic"}
FloatReturned == fpc = "done"

\* the argument is a numeral of an integer that 10^fdecimals divides
DivisibleInput ==
    /\ IsHexNumeral(fresult) \/ IsDecNumeral(fresult)
    /\ fdecimals >= 0
    /\ NatDiv(NumeralNat(fresult), NatPow10(fdecimals)).r = <<>>

\* C13: for a non-negative integer n that 10^s divides, given in decimal digits
\* or as "0x" and hexadecimal digits, resultToFloat64WithDecimals returns
\* n / 10^s.
C13_ExactQuotient ==
    (FloatEnded /\ DivisibleInput) =>
        /\ FloatReturned
        /\ f = ExactFloat(NatDiv(NumeralNat(fresult), NatPow10(fdecimals)).q)

\* C14: hexadecimal digits without the "0x" prefix are read in base 16:
\* ("3b9aca00", 6) returns 1000.
C14_UnprefixedHexIsBase16 ==
    (FloatEnded /\ fresult = "3b9aca00" /\ fdecimals = 6) =>
        /\ FloatReturned
        /\ f = Float64OfInt(1000)

\* neither "0x" with hexadecimal digits nor a base-10 integer
Malformed(str) == ~IsHexNumeral(str) /\ ~IsDecInteger(str)

\* C15: for a text that is neither "0x" with hexadecimal digits nor a base-10
\* integer, and every scale, resultToFloat64WithDecimals returns 0 and does
\* not crash.
C15_MalformedGivesZero ==
    (FloatEnded /\ Malformed(fresult)) =>
        /\ FloatReturned
        /\ f.kind = "zero"

\* the argument and scale columns stand under the keys args and decimals, with
\* as many values as the method, tag and resultJMESPath columns
PluralKeys ==
    /\ params["arg"] = <<>> /\ params["decimal"] = <<>>
    /\ N > 0
    /\ \A key \in {"args", "decimals", "tag", "resultJMESPath"} : Len(params[key]) = N

\* C16: a parameter map that names its argument column args and its scale
\* column decimals is probed as one naming them arg and decimal: when the
\* calls succeed the probe succeeds, with one gauge value per descriptor.
C16_PluralKeysRecognized ==
    (Returned /\ IsJsonrpc /\ PluralKeys /\ Canned /\ ~registry.occupied) =>
        /\ success
        /\ Len(sets) = N

\* C17: when the argument text of any descriptor fails to parse, ProbeJSONRPC
\* returns false and, with and without batching, has issued no call and set no
\* gauge value when it returns.
C17_ParseFailureBeforeIO ==
    (Returned /\ IsJsonrpc /\ WellFormed /\ ~AllArgsParse) =>
        /\ ~success
        /\ wire = <<>>
        /\ sets = <<>>

\* the invocation was unwound by a panic
Panicked == pc = "panic"

\* C18: for every parameter map, registry and endpoint behaviour an invocation
\* of ProbeJSONRPC ends by returning a boolean: none ends in a panic.
C18_NoPanic == ~Panicked

\* a call or a batch call has been sent and has not returned
Outstanding == pc \in {"awaitCall", "awaitBatch"}

\* C19: when the context is cancelled while a call or a batch call is
\* outstanding and the endpoint never answers, ProbeJSONRPC eventually returns.
C19_CancelAbandonsCall == (ctx = "cancelled" /\ Outstanding /\ silent) ~> Returned

\* the two invocations have both returned, after taking turns
BothReturned == Together /\ pc = "done" /\ saved.pc = "done"

BatchAnswered ==
    /\ IsJsonrpc /\ WellFormed /\ ~Unbatched
    /\ Len(wire) = 1
    /\ endpoint.failAt # 1
    /\ pc # "awaitBatch"

\* the elements that came back with an error object of their own
ErrorElements == { k \in 1..N : endpoint.reply[k] = RpcError }

\* C23: with batching, when the round trip of the batch succeeds and element k
\* of the response carries an error of its own, no value is ever set on the
\* gauge for descriptor k, and when ProbeJSONRPC returns it returns false.
C23_ElementErrorFails ==
    BatchAnswered =>
        \A k \in ErrorElements :
            /\ raw[k] = NilRaw
            /\ \A n \in 1..Len(sets) : sets[n].k # k
            /\ Returned => ~success

\* C23 witness: a batch of MaxN descriptors was answered with results for all
\* but the last, which came back with an error: ProbeJSONRPC has set the gauges
\* before it and has returned false.
C23_Witness ==
    /\ BatchAnswered /\ Returned
    /\ N = MaxN
    /\ ErrorElements = {N}
    /\ Len(sets) = N - 1
    /\ registry.series # {}
    /\ ~success

\* the request names another module than jsonrpc, or none, and its five
\* columns are present and of one length
OtherModule == ~IsJsonrpc /\ WellFormed

\* C24: when the five columns pass the presence and length checks and the
\* module is not "jsonrpc" (or absent), ProbeJSONRPC never sends a request,
\* never registers or sets a gauge, leaves the registry as the caller passed
\* it, and, having reached the checks, returns true.
C24_OtherModuleIsNoOp ==
    OtherModule =>
        /\ wire = <<>>
        /\ sets = <<>>
        /\ registry = FreshRegistry(registry.occupied)
        /\ pc # "panic"
        /\ (Returned /\ ~DialFails(ExpectedRpc)) => success

\* C24 witness: a request with MaxN descriptors for the module http_2xx has
\* passed the checks and returned true with nothing sent or registered.
C24_Witness ==
    /\ OtherModule /\ Returned
    /\ N = MaxN
    /\ params["module"] = <<"http_2xx">>
    /\ rpc = ExpectedRpc
    /\ success
    /\ wire = <<>>
    /\ ~registry.vec

\* ProbeBTCRPC was called in the mode btc_chain_info and has returned
BtcReturned == bpc = "done" /\ bparams.module = "btc_chain_info"

\* the response has a result object with a numeric field blocks
HasHeight ==
    /\ output # CurlFails
    /\ UnmarshalMap(output.json).ok
    /\ AsMap(UnmarshalMap(output.json).fields, "result").ok
    /\ AsFloat64(AsMap(UnmarshalMap(output.json).fields, "result").fields, "blocks").ok

Height == AsFloat64(AsMap(UnmarshalMap(output.json).fields, "result").fields, "blocks").n

\* C21: in the mode btc_chain_info ProbeBTCRPC returns true only when the
\* response held a numeric block height, and then probe_btcrpc_block_number
\* of the target has that height as its value; when the command failed, the
\* response was no JSON, or it had no result object or no numeric blocks in
\* it, ProbeBTCRPC returns false and the gauge has no value.
C21_TrueOnlyWithHeight ==
    BtcReturned =>
        /\ bsuccess =>
              /\ HasHeight
              /\ bregistry.series = {[labels |-> <<btarget>>, value |-> WholeFloat64(Height)]}
        /\ ~HasHeight => ~bsuccess /\ bregistry.series = {}

\* the call strings of the model whose fragment has an empty list of outputs:
\* one for a function without inputs and with no argument after the fragment,
\* one for a function with an input and its argument
ZeroOutputCalls ==
    { "Token1|0x3c|[{\"inputs\":[],\"name\":\"totalSupply\",\"outputs\":[],\"type\":\"function\"}]",
      "Token2|0xE6|[{\"inputs\":[{\"type\":\"address\"}],\"name\":\"touch\",\"outputs\":[],\"type\":\"function\"}]|0x20" }

\* ProbeETHRPC has returned false at call string k before invoking anything for it
RejectedAt(k) == epc = "done" /\ ~esuccess /\ eidx = k /\ Len(ewire) < k

====
